---- MODULE Spec2Model ----
(***************************************************************************)
(* Model of the pass converter: the intermediate Pass, its six variants,   *)
(* hint resolution, the row packing of Pass.toGoogle and the size-bounded  *)
(* token issuance of pkPassToGoogle.                                       *)
(*                                                                         *)
(* One module, several specifications over the same variables:            *)
(*   SpecDispatch  pkPassToGoogle (app.js), one conversion per behaviour   *)
(*   SpecPack      Pass.toGoogle row packing and free-text modules         *)
(*   SpecHint      hintedPkPassField called in any order on one pass       *)
(*   SpecDecode    Pass.fromPkPass: variant selection and variant decode   *)
(* A specification leaves the variables it does not use at their idle     *)
(* values.                                                                 *)
(***************************************************************************)
EXTENDS Integers, Sequences, FiniteSets, TLC

VARIABLES
  pc,                  \* position of the running operation
  thrown,              \* what the operation threw to its caller ("none" if nothing)
  credentials,         \* app.js: service account credentials loaded?
  prefix,              \* pass.googlePrefix of the pass being issued
  googlePass,          \* the payload object handed to encodeJwt
  token,               \* the token encodeJwt returned last
  requests,            \* httpClient.request calls, in issue order
  result,              \* what pkPassToGoogle returned
  json,                \* the archive's pass.json
  hints,               \* config.hints
  emptyValue,          \* config.emptyValue
  signing,             \* the pkPass signing settings that are configured
  defaultLanguage,     \* config.defaultLanguage
  variant,             \* the class createPassForType instantiated
  title,               \* pass.title
  frontContent,        \* pass.frontContent
  backContent,         \* pass.backContent
  description,         \* pass.description
  hinted,              \* pass._hinted
  attrs,               \* the attributes the variant adds to the pass
  barcode,             \* pass.barcode
  strings,             \* pass.strings
  returned,            \* value returned by the last call of the function under study
  history,             \* the calls made so far
  packInput,           \* frontContent as Pass.toGoogle received it
  textModulesData,     \* the object's textModulesData built by Pass.toGoogle
  cardRowTemplateInfos, \* the class's cardRowTemplateInfos built by Pass.toGoogle
  zip,                 \* the entries Pass.toPkPass added to the archive, in order
  spawned,             \* the spawnSync calls made so far
  signatureFile,       \* does the signature file exist in the temporary directory?
  demo,                \* DEMO: was the service started with the argument 'demo'?
  authHeader,          \* config.authHeader
  storageBucket,       \* config.googleStorageBucket
  images,              \* the image cache of the service: the names cached
  registrations,       \* the records of the 'registrations' repository, in order saved
  responses,           \* the HTTP status codes answered so far
  pushed,              \* the push tokens notified so far
  conversions          \* the conversions the /convert/ handlers started

dispatchVars == <<credentials, prefix, googlePass, token, requests, result>>
configVars == <<hints, emptyValue, signing, defaultLanguage>>
passVars == <<variant, title, description, frontContent, backContent, hinted, attrs,
             barcode, strings>>
hintVars == <<returned, history>>
outputVars == <<packInput, textModulesData, cardRowTemplateInfos, zip, spawned, signatureFile>>
serverVars == <<demo, authHeader, storageBucket, images, registrations, responses, pushed,
               conversions>>
vars == <<pc, thrown, dispatchVars, json, configVars, passVars, hintVars, outputVars,
          serverVars>>

\* JavaScript's undefined
Undefined == "undefined"

----------------------------------------------------------------------------
(* Idle values of each group of variables *)

DispatchIdle ==
  /\ credentials = FALSE
  /\ prefix = Undefined
  /\ googlePass = << >>
  /\ token = Undefined
  /\ requests = << >>
  /\ result = Undefined

ConfigIdle ==
  /\ hints = << >>
  /\ emptyValue = Undefined
  /\ signing = {}
  /\ defaultLanguage = Undefined

PassIdle ==
  /\ variant = Undefined
  /\ title = Undefined
  /\ description = Undefined
  /\ frontContent = << >>
  /\ backContent = << >>
  /\ hinted = << >>
  /\ attrs = << >>
  /\ barcode = << >>
  /\ strings = << >>

HintIdle ==
  /\ returned = << >>
  /\ history = << >>

OutputIdle ==
  /\ packInput = << >>
  /\ textModulesData = << >>
  /\ cardRowTemplateInfos = << >>
  /\ zip = << >>
  /\ spawned = << >>
  /\ signatureFile = FALSE

ServerIdle ==
  /\ demo = FALSE
  /\ authHeader = Undefined
  /\ storageBucket = Undefined
  /\ images = {}
  /\ registrations = << >>
  /\ responses = << >>
  /\ pushed = << >>
  /\ conversions = << >>

----------------------------------------------------------------------------
(* The six variants, in the order createPassForType tries them *)

passClasses == <<"Generic", "Loyalty", "Event", "Offer", "Flight", "Transit">>

googlePrefix(cls) ==
  CASE cls = "Generic" -> "generic"
    [] cls = "Loyalty" -> "loyalty"
    [] cls = "Event" -> "eventTicket"
    [] cls = "Offer" -> "offer"
    [] cls = "Flight" -> "flight"
    [] cls = "Transit" -> "transit"

Prefixes == {googlePrefix(passClasses[i]) : i \in 1..Len(passClasses)}

----------------------------------------------------------------------------
(* pkPassToGoogle: token issuance with the size fallback (app.js)          *)

\* Sum of the values of a function with a finite domain
RECURSIVE SumOver(_, _)
SumOver(f, keys) ==
  IF keys = {} THEN 0
  ELSE LET k == CHOOSE x \in keys : TRUE IN f[k] + SumOver(f, keys \ {k})

\* Serialized length of a class or object: a function from its keys to the
\* number of token characters each key contributes
ObjectLength(obj) == SumOver(obj, DOMAIN obj)

\* Token characters of a whole payload: the arrays under Classes and Objects
PayloadLength(payload) ==
  SumOver([k \in DOMAIN payload |-> ObjectLength(payload[k][1])], DOMAIN payload)

\* Lengths the parts of a payload are drawn from (token characters)
IdLengths == {60, 1900}
ClassLengths == {200, 1000, 2500}
ModuleLengths == {100, 1200, 2500}

MaxTokenLength == 1800

\* encodeJwt without its length check
encodeJwtThrows_NoCheck(length, checkLength) == FALSE

\* The length check of encodeJwt: does this call throw?
encodeJwtThrows(length, checkLength) == checkLength /\ length > MaxTokenLength

\* What encodeJwt returns when it does not throw
encodeJwt(payload) == [payload |-> payload, length |-> PayloadLength(payload)]

\* the last attempt made with the length check left on
LastCheckLength_Checked == TRUE

\* The last attempt is made with checkLength = false
LastCheckLength == FALSE

\* data of the class-create request
ClassRequestData(payload) == payload["Classes"][1]

\* the object request built after the object was stripped
ObjectRequestData_Stripped(payload) == ("id" :> payload["Objects"][1]["id"])

\* data of the object-create request
ObjectRequestData(payload) == payload["Objects"][1]

\* delete googlePass[prefix + 'Classes']
StripClass(payload) == [k \in DOMAIN payload \ {"Classes"} |-> payload[k]]

\* googlePass[prefix + 'Objects'][0] = { id: ...id }
StripObject(payload) ==
  [payload EXCEPT !["Objects"] = << ("id" :> payload["Objects"][1]["id"]) >>]

Outcomes == {"ok", "error"}

DispatchPayloads ==
  { ("Classes" :> << ("id" :> 60) @@ ("classTemplateInfo" :> c) >>) @@
    ("Objects" :> << ("id" :> i) @@ ("classId" :> 60) @@ ("textModulesData" :> m) >>)
    : c \in ClassLengths, i \in IdLengths, m \in ModuleLengths }

InitDispatch ==
  /\ pc = "start"
  /\ thrown = "none"
  /\ credentials \in BOOLEAN
  /\ prefix \in Prefixes
  /\ googlePass \in DispatchPayloads
  /\ token = Undefined
  /\ requests = << >>
  /\ result = Undefined
  /\ json = Undefined
  /\ ConfigIdle /\ PassIdle /\ HintIdle /\ OutputIdle /\ ServerIdle

othersUnchangedByDispatch == UNCHANGED <<json, configVars, serverVars, passVars, hintVars, outputVars>>

\* if (!credentials) throw
CheckCredentials ==
  /\ pc = "start"
  /\ IF credentials
       THEN pc' = "encodeFull" /\ thrown' = thrown
       ELSE pc' = "done" /\ thrown' = "NoCredentials"
  /\ UNCHANGED dispatchVars
  /\ othersUnchangedByDispatch

\* token = encodeJwt(googlePass), first attempt
EncodeFull ==
  /\ pc = "encodeFull"
  /\ IF encodeJwtThrows(PayloadLength(googlePass), TRUE)
       THEN pc' = "createClass" /\ token' = token
       ELSE pc' = "return" /\ token' = encodeJwt(googlePass)
  /\ UNCHANGED <<thrown, credentials, prefix, googlePass, requests, result>>
  /\ othersUnchangedByDispatch

\* httpClient.request({ url: ...Class/, method: 'POST', data: class })
CreateClass ==
  /\ pc = "createClass"
  /\ requests' = Append(requests,
       [kind |-> "Class", data |-> ClassRequestData(googlePass), status |-> "pending"])
  /\ pc' = "awaitClass"
  /\ UNCHANGED <<thrown, credentials, prefix, googlePass, token, result>>
  /\ othersUnchangedByDispatch

\* the awaited class request settles; a rejection is caught and logged
ClassSettles ==
  /\ pc = "awaitClass"
  /\ \E o \in Outcomes : requests' = [requests EXCEPT ![Len(requests)].status = o]
  /\ pc' = "encodeStripped"
  /\ UNCHANGED <<thrown, credentials, prefix, googlePass, token, result>>
  /\ othersUnchangedByDispatch

\* delete the class, token = encodeJwt(googlePass), second attempt
EncodeStripped ==
  /\ pc = "encodeStripped"
  /\ googlePass' = StripClass(googlePass)
  /\ IF encodeJwtThrows(PayloadLength(googlePass'), TRUE)
       THEN pc' = "createObject" /\ token' = token
       ELSE pc' = "return" /\ token' = encodeJwt(googlePass')
  /\ UNCHANGED <<thrown, credentials, prefix, requests, result>>
  /\ othersUnchangedByDispatch

\* httpClient.request({ url: ...Object/, method: 'POST', data: object })
CreateObject ==
  /\ pc = "createObject"
  /\ requests' = Append(requests,
       [kind |-> "Object", data |-> ObjectRequestData(googlePass), status |-> "pending"])
  /\ pc' = "awaitObject"
  /\ UNCHANGED <<thrown, credentials, prefix, googlePass, token, result>>
  /\ othersUnchangedByDispatch

\* the awaited object request settles; a rejection is caught and logged
ObjectSettles ==
  /\ pc = "awaitObject"
  /\ \E o \in Outcomes : requests' = [requests EXCEPT ![Len(requests)].status = o]
  /\ pc' = "encodeMinimal"
  /\ UNCHANGED <<thrown, credentials, prefix, googlePass, token, result>>
  /\ othersUnchangedByDispatch

\* strip all but the id, token = encodeJwt(googlePass, false)
EncodeMinimal ==
  /\ pc = "encodeMinimal"
  /\ googlePass' = StripObject(googlePass)
  /\ IF encodeJwtThrows(PayloadLength(googlePass'), LastCheckLength)
       THEN pc' = "done" /\ thrown' = "TokenTooLarge" /\ token' = token
       ELSE pc' = "return" /\ thrown' = thrown /\ token' = encodeJwt(googlePass')
  /\ UNCHANGED <<credentials, prefix, requests, result>>
  /\ othersUnchangedByDispatch

\* return 'https://pay.google.com/gp/v/save/' + token
ReturnSaveUrl ==
  /\ pc = "return"
  /\ result' = [url |-> "https://pay.google.com/gp/v/save/", token |-> token]
  /\ pc' = "done"
  /\ UNCHANGED <<thrown, credentials, prefix, googlePass, token, requests>>
  /\ othersUnchangedByDispatch

NextDispatch ==
  \/ CheckCredentials
  \/ EncodeFull
  \/ CreateClass
  \/ ClassSettles
  \/ EncodeStripped
  \/ CreateObject
  \/ ObjectSettles
  \/ EncodeMinimal
  \/ ReturnSaveUrl

SpecDispatch == InitDispatch /\ [][NextDispatch]_vars

----------------------------------------------------------------------------
(* Pass.toGoogle: free-text modules, row packing, card row template        *)

\* utils.js flatten: concatenate the nested arrays
RECURSIVE flatten(_)
flatten(array) ==
  IF Len(array) = 0 THEN << >> ELSE Head(array) \o flatten(Tail(array))

\* Array.prototype.filter(row => row.length > 0)
RECURSIVE nonEmptyRows(_)
nonEmptyRows(rows) ==
  IF Len(rows) = 0 THEN << >>
  ELSE IF Len(Head(rows)) > 0 THEN <<Head(rows)>> \o nonEmptyRows(Tail(rows))
  ELSE nonEmptyRows(Tail(rows))

\* Generic.toGoogle moves the back content into the front content first
genericFrontContent(front, back) == nonEmptyRows(front \o <<back>>)

\* number of items a row may hold, and that row.splice(0, 3) cuts off
MaxItemsPerRow == 3

\* number of rows the card template takes: frontContent.slice(0, 3)
MaxTemplateRows == 3

\* the loop wrapping one row: while (row.length > 3) rows.push(row.splice(0, 3));
\* if (row.length > 0) rows.push(row)
RECURSIVE wrapRow(_)
wrapRow(row) ==
  IF Len(row) > MaxItemsPerRow
    THEN <<SubSeq(row, 1, MaxItemsPerRow)>> \o wrapRow(SubSeq(row, MaxItemsPerRow + 1, Len(row)))
  ELSE IF Len(row) > 0 THEN <<row>>
  ELSE << >>

\* the rows left as they are
packFrontContent_Unwrapped(front) == front

\* this.frontContent = flatten(this.frontContent.map(row => ...rows))
packFrontContent(front) == flatten([i \in DOMAIN front |-> wrapRow(front[i])])

\* the template made from every packed row
templatedRows_NoCap(front) == front

\* this.frontContent.slice(0, 3)
templatedRows(front) ==
  SubSeq(front, 1, IF Len(front) < MaxTemplateRows THEN Len(front) ELSE MaxTemplateRows)

\* fieldPath: `object.textModulesData['${field.key}']`
templateInfoJSON(field) == <<"object.textModulesData", field.key>>

\* the switch on row.length building one CardRowTemplateInfo
templateRow(row) ==
  CASE Len(row) = 1 ->
         [name |-> "oneItem", slots |-> <<"item">>,
          refs |-> <<templateInfoJSON(row[1])>>]
    [] Len(row) = 2 ->
         [name |-> "twoItems", slots |-> <<"startItem", "endItem">>,
          refs |-> <<templateInfoJSON(row[1]), templateInfoJSON(row[2])>>]
    [] Len(row) = 3 ->
         [name |-> "threeItems", slots |-> <<"startItem", "middleItem", "endItem">>,
          refs |-> <<templateInfoJSON(row[1]), templateInfoJSON(row[2]), templateInfoJSON(row[3])>>]
    [] OTHER ->
         [name |-> "throw", slots |-> << >>, refs |-> << >>]

\* the free-text modules made from the rows the template references only
textModuleFields_Templated(front) == flatten(templatedRows(packFrontContent(front)))

\* flatten(this.frontContent), taken before the packing
textModuleFields(front) == flatten(front)

\* one TextModulesData entry
textModule(field) == [id |-> field.key, header |-> field.label, body |-> field.value]

\* bounds of the front and back content toGoogle is run on
MaxPackRows == 3
MaxPackRowLen == 5
MaxPackBack == 1

\* a field of the pass; in the packing runs each field's key is its position
PackField(k) == [key |-> k, label |-> "label", value |-> "value"]

\* rows of the given lengths holding fields numbered from `from` on
RECURSIVE NumberedRows(_, _)
NumberedRows(lengths, from) ==
  IF Len(lengths) = 0 THEN << >>
  ELSE <<[i \in 1..Head(lengths) |-> PackField(from + i - 1)]>>
       \o NumberedRows(Tail(lengths), from + Head(lengths))

PackRowLengths ==
  UNION {[1..n -> 0..MaxPackRowLen] : n \in 0..MaxPackRows}

InitPack ==
  /\ pc = "toGoogle"
  /\ thrown = "none"
  /\ DispatchIdle
  /\ json = Undefined
  /\ ConfigIdle
  /\ variant \in {passClasses[i] : i \in 1..Len(passClasses)}
  /\ title = Undefined
  /\ description = Undefined
  /\ \E lengths \in PackRowLengths : frontContent = NumberedRows(lengths, 1)
  /\ \E n \in 0..MaxPackBack : backContent = [i \in 1..n |-> PackField(100 + i)]
  /\ hinted = << >>
  /\ attrs = << >>
  /\ barcode = << >>
  /\ strings = << >>
  /\ HintIdle
  /\ OutputIdle /\ ServerIdle

\* Pass.toGoogle, entered through the variant's toGoogle
ToGoogle ==
  /\ pc = "toGoogle"
  /\ LET front == IF variant = "Generic"
                    THEN genericFrontContent(frontContent, backContent)
                    ELSE frontContent
         packed == packFrontContent(front)
         rows == [i \in DOMAIN templatedRows(packed) |-> templateRow(templatedRows(packed)[i])]
         unreachable == \E i \in DOMAIN rows : rows[i].name = "throw"
     IN /\ packInput' = front
        /\ backContent' = IF variant = "Generic" THEN << >> ELSE backContent
        /\ frontContent' = packed
        /\ textModulesData' =
             IF unreachable THEN textModulesData
             ELSE [i \in DOMAIN textModuleFields(front) |-> textModule(textModuleFields(front)[i])]
        /\ cardRowTemplateInfos' = IF unreachable THEN cardRowTemplateInfos ELSE rows
        /\ thrown' = IF unreachable THEN "Unreachable code, more than 3 items in a row" ELSE thrown
        /\ pc' = "done"
  /\ UNCHANGED <<dispatchVars, json, configVars, serverVars, variant, title, description,
                 hinted, attrs, barcode, strings, hintVars, zip, spawned, signatureFile>>

NextPack == ToGoogle

SpecPack == InitPack /\ [][NextPack]_vars

----------------------------------------------------------------------------
(* Hint resolution: hintedPkPassField, hintedPkPassFieldValue              *)

\* an absent object is the empty sequence, a present one a one-element sequence
None == << >>
Some(x) == <<x>>

\* this._hints[hintName]: undefined when the hint is not configured
pkpassFieldNameOf(cfg, hintName) ==
  IF hintName \in DOMAIN cfg THEN cfg[hintName] ELSE Undefined

\* the cache keyed by the hint's own name
hintCacheKey_ByHint(cfg, hintName) == hintName

\* the key under which a resolved field is cached: the archive field name
hintCacheKey(cfg, hintName) == pkpassFieldNameOf(cfg, hintName)

\* a field compared by its label
matchesHint_ByLabel(field, pkpassFieldName) == field.label = pkpassFieldName

\* matches(): field.key === pkpassFieldName
matchesHint(field, pkpassFieldName) == field.key = pkpassFieldName

\* the fields that matches() caches, in scan order
RECURSIVE matchingFields(_, _)
matchingFields(fields, name) ==
  IF Len(fields) = 0 THEN << >>
  ELSE IF matchesHint(Head(fields), name)
    THEN <<Head(fields)>> \o matchingFields(Tail(fields), name)
  ELSE matchingFields(Tail(fields), name)

\* fields.filter(matches): the fields matches() keeps
RECURSIVE filterMatches(_, _)
filterMatches(fields, name) ==
  IF Len(fields) = 0 THEN << >>
  ELSE IF matchesHint(Head(fields), name)
    THEN filterMatches(Tail(fields), name)
  ELSE <<Head(fields)>> \o filterMatches(Tail(fields), name)

\* hintedPkPassField on the pass state p = [front, back, hinted]; the result
\* holds the new pass state and ret, the field returned
hintedPkPassField(p, cfg, hintName) ==
  LET name == pkpassFieldNameOf(cfg, hintName)
      cacheKey == hintCacheKey(cfg, hintName)
  IN IF cacheKey \in DOMAIN p.hinted
       THEN [front |-> p.front, back |-> p.back, hinted |-> p.hinted,
             ret |-> Some(p.hinted[cacheKey])]
     ELSE
       LET found == matchingFields(flatten(p.front) \o p.back, name)
           cache == IF Len(found) > 0
                      THEN (cacheKey :> found[Len(found)]) @@ p.hinted
                      ELSE p.hinted
       IN [front |-> nonEmptyRows([i \in DOMAIN p.front |-> filterMatches(p.front[i], name)]),
           back |-> filterMatches(p.back, name),
           hinted |-> cache,
           ret |-> IF cacheKey \in DOMAIN cache THEN Some(cache[cacheKey]) ELSE None]

\* String.prototype.trim().length > 0 over the values of the model
Blank(value) == value \in {"", " "}

\* hintedPkPassFieldValue: ret is the string returned (Undefined when the
\* default is unset and config.emptyValue is not configured)
hintedPkPassFieldValue(p, cfg, empty, hintName, defaultValue) ==
  LET r == hintedPkPassField(p, cfg, hintName)
      value == IF r.ret = None THEN "" ELSE r.ret[1].value
      default == IF defaultValue \in {Undefined, ""} THEN empty ELSE defaultValue
  IN [front |-> r.front, back |-> r.back, hinted |-> r.hinted,
      ret |-> IF ~Blank(value) THEN value ELSE default]

\* the pass state hint resolution works on
PassContent == [front |-> frontContent, back |-> backContent, hinted |-> hinted]

\* bounds of the runs of hintedPkPassField
MaxHintFields == 3
MaxHintCalls == 2

\* archive field names and the hints resolved in these runs
FieldNames == {"points", "tier"}
HintNames == {"loyalty.primaryBalance", "loyalty.secondaryBalance"}

\* the shapes of field the content is drawn from: key and label differ, and
\* a field may have no key
FieldShapes ==
  { [key |-> "points", label |-> "tier"],
    [key |-> "tier", label |-> "points"],
    [key |-> Undefined, label |-> "points"] }

\* the content of a pass: n fields in order, field i of shape shapes[i] and
\* value i, placed in front row 1, front row 2 or the back (place 1, 2, 3)
ContentField(shapes, i) == [key |-> shapes[i].key, label |-> shapes[i].label, value |-> i]

FieldsPlaced(shapes, places, place) ==
  LET idx == {i \in DOMAIN shapes : places[i] = place}
      RECURSIVE ordered(_)
      ordered(from) ==
        IF from > Len(shapes) THEN << >>
        ELSE IF from \in idx THEN <<ContentField(shapes, from)>> \o ordered(from + 1)
        ELSE ordered(from + 1)
  IN ordered(1)

HintConfigs ==
  UNION {[D -> FieldNames] : D \in SUBSET HintNames}

InitHint ==
  /\ pc = "decoding"
  /\ thrown = "none"
  /\ DispatchIdle
  /\ json = Undefined
  /\ hints \in HintConfigs
  /\ emptyValue = Undefined
  /\ signing = {}
  /\ defaultLanguage = Undefined
  /\ variant = "Loyalty"
  /\ title = Undefined
  /\ description = Undefined
  /\ \E n \in 0..MaxHintFields :
       \E shapes \in [1..n -> FieldShapes] :
         \E places \in [1..n -> 1..3] :
           /\ \A i \in 1..n : \A j \in 1..n : i < j => places[i] <= places[j]
           /\ frontContent = nonEmptyRows(<<FieldsPlaced(shapes, places, 1),
                                            FieldsPlaced(shapes, places, 2)>>)
           /\ backContent = FieldsPlaced(shapes, places, 3)
  /\ hinted = << >>
  /\ attrs = << >>
  /\ barcode = << >>
  /\ strings = << >>
  /\ returned = None
  /\ history = << >>
  /\ OutputIdle /\ ServerIdle

\* one call of hintedPkPassField(hintName)
CallHintedPkPassField(hintName) ==
  /\ pc = "decoding"
  /\ Len(history) < MaxHintCalls
  /\ LET r == hintedPkPassField(PassContent, hints, hintName) IN
       /\ frontContent' = r.front
       /\ backContent' = r.back
       /\ hinted' = r.hinted
       /\ returned' = r.ret
       /\ history' = Append(history,
            [hint |-> hintName,
             name |-> pkpassFieldNameOf(hints, hintName),
             configured |-> hintName \in DOMAIN hints,
             cached |-> pkpassFieldNameOf(hints, hintName) \in DOMAIN hinted,
             before |-> [front |-> frontContent, back |-> backContent],
             after |-> [front |-> r.front, back |-> r.back],
             ret |-> r.ret])
  /\ UNCHANGED <<pc, thrown, dispatchVars, json, configVars, serverVars, variant, title,
                 description, attrs, barcode, strings, outputVars>>

NextHint == \E hintName \in HintNames : CallHintedPkPassField(hintName)

SpecHint == InitHint /\ [][NextHint]_vars

----------------------------------------------------------------------------
(* Pass.fromPkPass: variant selection, shared fields, variant decode       *)

\* static pkpassContentFields of each variant
pkpassContentFields(cls) ==
  CASE cls = "Generic" -> "generic"
    [] cls = "Loyalty" -> "storeCard"
    [] cls = "Event" -> "eventTicket"
    [] cls = "Offer" -> "coupon"
    [] cls = "Flight" -> "boardingPass"
    [] cls = "Transit" -> "boardingPass"

\* transit.js APPLE_TRANSIT_TYPES
APPLE_TRANSIT_TYPES ==
  ("PKTransitTypeTrain" :> "RAIL") @@ ("PKTransitTypeBoat" :> "FERRY") @@
  ("PKTransitTypeBus" :> "BUS") @@ ("PKTransitTypeGeneric" :> "OTHER")

\* no variant declares transit types
declaresTransitTypes_None(cls) == FALSE

\* the variants that declare static pkpassTransitTypes
declaresTransitTypes(cls) == cls \in {"Flight", "Transit"}

\* static pkpassTransitTypes, for the variants that declare it
pkpassTransitTypes(cls) ==
  IF cls = "Flight" THEN {"PKTransitTypeAir"} ELSE DOMAIN APPLE_TRANSIT_TYPES

\* the predicate with the transit type left unchecked
matchesArchive_NoTransitType(cls, js) == pkpassContentFields(cls) \in DOMAIN js.content

\* the predicate Pass.fromPkPass hands to createPassForType
matchesArchive(cls, js) ==
  /\ pkpassContentFields(cls) \in DOMAIN js.content
  /\ \/ ~declaresTransitTypes(cls)
     \/ js.content[pkpassContentFields(cls)].transitType \in pkpassTransitTypes(cls)

\* passClasses.filter(filter)[0]: Undefined when no class matches
createPassForType(js) ==
  LET matching == SelectSeq(passClasses, LAMBDA cls : matchesArchive(cls, js))
  IN IF Len(matching) = 0 THEN Undefined ELSE matching[1]

\* JavaScript truthiness of a string or undefined
Truthy(v) == v \notin {Undefined, ""}

\* this.emptyValue read in Event.fromPkPass: Pass has no such property
passEmptyValue == Undefined

\* the texts chrono-node's parseDate finds a date or a time in
DateTexts == {"2024-05-01", "10:30"}

\* parseDate(`${date} ${time}`) !== null
parsesAsDateTime(date, time) == date \in DateTexts \/ time \in DateTexts

\* value.replace(/\s/g, '')
removeWhitespace(v) == IF v = "LH 123" THEN "LH123" ELSE IF v = " " THEN "" ELSE v

\* the hints Loyalty.fromPkPass resolves
primaryBalanceHint == "loyalty.primaryBalance"
secondaryBalanceHint == "loyalty.secondaryBalance"

\* Loyalty.fromPkPass
loyaltyFromPkPass(p, cfg) ==
  LET r1 == hintedPkPassField(p, cfg, primaryBalanceHint)
      r2 == hintedPkPassField(r1, cfg, secondaryBalanceHint)
  IN [front |-> r2.front, back |-> r2.back, hinted |-> r2.hinted, thrown |-> "none",
      attrs |-> [primaryBalance |-> r1.ret, secondaryBalance |-> r2.ret]]

\* Event.fromPkPass: the title it sets, or the error it throws
eventFromPkPass(p, cfg, empty, passTitle) ==
  LET r == hintedPkPassFieldValue(p, cfg, empty, "event.name", passTitle)
  IN [front |-> r.front, back |-> r.back, hinted |-> r.hinted, title |-> r.ret,
      thrown |-> IF r.ret = passEmptyValue
                   THEN "Could not determine event name, please specify via hints.json"
                   ELSE "none"]

\* one more hinted value in front of the values resolved after it
addValue(name, value, rest) ==
  [front |-> rest.front, back |-> rest.back, hinted |-> rest.hinted,
   values |-> (name :> value) @@ rest.values]

\* the hinted values of a sequence of hints, resolved in order with no
\* default; values maps each hint to the string returned for it
RECURSIVE hintedValues(_, _, _, _)
RECURSIVE hintedValuesAfter(_, _, _, _)
hintedValues(p, cfg, empty, names) ==
  IF Len(names) = 0
    THEN [front |-> p.front, back |-> p.back, hinted |-> p.hinted, values |-> << >>]
  ELSE hintedValuesAfter(hintedPkPassFieldValue(p, cfg, empty, Head(names), Undefined),
                         cfg, empty, names)

\* the values of names once the first of them has resolved to r
hintedValuesAfter(r, cfg, empty, names) ==
  addValue(Head(names), r.ret, hintedValues(r, cfg, empty, Tail(names)))

\* the hints Flight.fromPkPass resolves, in the order of its object literal;
\* json.departureCode and json.arrivalCode short-circuit their hints
flightHints(js) ==
  <<"flight.passenger", "flight.seatNumber", "flight.seatClass", "flight.gate">>
  \o (IF Truthy(js.departureCode) THEN << >> ELSE <<"flight.originCode">>)
  \o (IF Truthy(js.arrivalCode) THEN << >> ELSE <<"flight.destinationCode">>)
  \o <<"flight.flightNumber", "flight.date", "flight.time", "flight.confirmationCode">>

\* the attributes Flight.fromPkPass sets from the hinted values r, or the
\* error it throws
flightUpdate(r, js) ==
  [front |-> r.front, back |-> r.back, hinted |-> r.hinted,
   attrs |-> [passenger |-> r.values["flight.passenger"],
              seatNumber |-> r.values["flight.seatNumber"],
              seatClass |-> r.values["flight.seatClass"],
              gate |-> r.values["flight.gate"],
              origin |-> IF Truthy(js.departureCode) THEN js.departureCode
                         ELSE r.values["flight.originCode"],
              destination |-> IF Truthy(js.arrivalCode) THEN js.arrivalCode
                              ELSE r.values["flight.destinationCode"],
              flightNumber |-> removeWhitespace(r.values["flight.flightNumber"]),
              date |-> r.values["flight.date"],
              time |-> r.values["flight.time"],
              confirmationCode |-> r.values["flight.confirmationCode"]],
   thrown |-> IF r.values["flight.flightNumber"] = Undefined
                THEN "TypeError"
              ELSE IF ~parsesAsDateTime(r.values["flight.date"], r.values["flight.time"])
                THEN "Could not determine flight departure date/time, please specify via hints.json"
              ELSE "none"]

\* Flight.fromPkPass
flightFromPkPass(p, cfg, empty, js) ==
  flightUpdate(hintedValues(p, cfg, empty, flightHints(js)), js)

\* the hints Transit.fromPkPass resolves, in order
transitHints ==
  <<"transit.originName", "transit.originDate", "transit.originTime",
    "transit.destinationName", "transit.destinationDate", "transit.destinationTime">>

\* the attributes Transit.fromPkPass sets from the hinted values r
transitUpdate(r, js) ==
  [front |-> r.front, back |-> r.back, hinted |-> r.hinted, thrown |-> "none",
   attrs |-> [transitType |-> APPLE_TRANSIT_TYPES[js.content["boardingPass"].transitType],
              originName |-> r.values["transit.originName"],
              originDate |-> r.values["transit.originDate"],
              originTime |-> r.values["transit.originTime"],
              destinationName |-> r.values["transit.destinationName"],
              destinationDate |-> r.values["transit.destinationDate"],
              destinationTime |-> r.values["transit.destinationTime"]]]

\* Transit.fromPkPass
transitFromPkPass(p, cfg, empty, js) ==
  transitUpdate(hintedValues(p, cfg, empty, transitHints), js)

\* Offer.fromPkPass: json.description || json.logoText
offerTitle(js) == IF Truthy(js.description) THEN js.description ELSE js.logoText

\* JavaScript values of the balance code. A number is num / 1000 (nan for
\* NaN); a string is its text, or, for the result of toFixed, the decimal
\* num / 10^dec written with dec decimals.
Num(m) == [type |-> "number", nan |-> FALSE, num |-> m, dec |-> 3, text |-> ""]
NaN == [type |-> "number", nan |-> TRUE, num |-> 0, dec |-> 3, text |-> "NaN"]
Str(t) == [type |-> "string", nan |-> FALSE, num |-> 0, dec |-> 0, text |-> t]
Fixed(n, p) == [type |-> "string", nan |-> FALSE, num |-> n, dec |-> p, text |-> "toFixed"]

\* Number(text) for the texts of the model, in thousandths; any other text
\* is NaN
NumberOfText ==
  ("0" :> 0) @@ ("10" :> 10000) @@ ("12" :> 12000) @@ ("12.3" :> 12300) @@ ("1.50" :> 1500)
  @@ ("" :> 0)

\* String(number) for the numbers Number(text) can give
TextOfNumber ==
  (0 :> "0") @@ (10000 :> "10") @@ (12000 :> "12") @@ (12300 :> "12.3") @@ (1500 :> "1.5")

\* Number(value)
ToNumber(v) ==
  IF v.type = "number" THEN v
  ELSE IF v.text \in DOMAIN NumberOfText THEN Num(NumberOfText[v.text])
  ELSE NaN

\* String(Number(value)) === String(value)
isNumeric(v) ==
  \/ v.type = "number"
  \/ v.text \in DOMAIN NumberOfText /\ TextOfNumber[NumberOfText[v.text]] = v.text

\* String(value).indexOf('.') > 0, for a numeric value
hasDecimalPoint(v) == ~ToNumber(v).nan /\ ToNumber(v).num % 1000 # 0

\* !!value
truthyValue(v) ==
  IF v.type = "number" THEN ~v.nan /\ v.num # 0
  ELSE v.text # ""

\* the decimal precisions precision() knows; a sample of its table
precisionTable == [JPY |-> 0, USD |-> 2, EUR |-> 2, BHD |-> 3]

\* currencyCode.toUpperCase()
toUpperCase(code) ==
  CASE code = "usd" -> "USD"
    [] code = "rail" -> "RAIL"
    [] code = "ferry" -> "FERRY"
    [] code = "bus" -> "BUS"
    [] code = "tram" -> "TRAM"
    [] code = "other" -> "OTHER"
    [] OTHER -> code

\* is precision(currencyCode) defined?
hasPrecision(code) == toUpperCase(code) \in DOMAIN precisionTable

\* precision(currencyCode), where defined
precision(code) == precisionTable[toUpperCase(code)]

\* Math.pow(10, p)
RECURSIVE pow10(_)
pow10(p) == IF p = 0 THEN 1 ELSE 10 * pow10(p - 1)

\* Math.round(x / 1000) without rounding
roundMicros_Truncated(x) == IF x >= 0 THEN x \div 1000 ELSE -((-x) \div 1000)

\* Math.round(x / 1000): the nearest integer, halves towards +infinity
roundMicros(x) == (x + 500) \div 1000

\* Math.round(value * Math.pow(10, precision(currencyCode))): the micros of
\* a money balance, nan when the value is not a number or the currency code
\* has no precision
moneyMicros(v, code) ==
  IF ToNumber(v).nan \/ ~hasPrecision(code) THEN [nan |-> TRUE, n |-> 0]
  ELSE [nan |-> FALSE, n |-> roundMicros(ToNumber(v).num * pow10(precision(code)))]

\* Loyalty.toGoogleBalanceField: nothing for a missing field, else the
\* LoyaltyPointsBalance with the slot (valueField) the value goes to
toGoogleBalanceField(field) ==
  IF field = None THEN None
  ELSE LET f == field[1] IN
    Some([localizedLabel |-> IF Truthy(f.label) THEN Some(f.label) ELSE None,
          balance |->
            IF ~Truthy(f.currencyCode)
              THEN IF isNumeric(f.value)
                     THEN [slot |-> IF hasDecimalPoint(f.value) THEN "double" ELSE "int",
                           value |-> ToNumber(f.value),
                           currencyCode |-> Undefined,
                           micros |-> [nan |-> FALSE, n |-> 0]]
                     ELSE [slot |-> "string",
                           value |-> f.value,
                           currencyCode |-> Undefined,
                           micros |-> [nan |-> FALSE, n |-> 0]]
              ELSE [slot |-> "money",
                    value |-> Str(""),
                    currencyCode |-> f.currencyCode,
                    micros |-> moneyMicros(f.value, f.currencyCode)]])

\* (micros / Math.pow(10, precision(code))).toFixed(precision(code))
moneyValue(micros, code) ==
  IF micros.nan \/ ~hasPrecision(code) THEN Str("NaN")
  ELSE Fixed(micros.n, precision(code))

\* Loyalty.fromGoogleBalanceField: ret is the balance field, thrown the error
\* of reading a property of undefined (the label of a balance that has none,
\* the money of a balance whose string, int and double are all falsy)
fromGoogleBalanceField(field) ==
  IF field = None THEN [thrown |-> "none", ret |-> None]
  ELSE LET f == field[1] IN
    IF f.localizedLabel = None THEN [thrown |-> "TypeError", ret |-> None]
    ELSE IF f.balance.slot # "money" /\ ~truthyValue(f.balance.value)
      THEN [thrown |-> "TypeError", ret |-> None]
    ELSE [thrown |-> "none",
          ret |-> Some([label |-> f.localizedLabel[1],
                        currencyCode |-> f.balance.currencyCode,
                        value |-> IF f.balance.slot = "money"
                                    THEN moneyValue(f.balance.micros, f.balance.currencyCode)
                                    ELSE f.balance.value])]

\* a content field of the archive as a balance field: its value is a string
\* and it has no currency code
balanceOfField(field) ==
  IF field = None THEN None
  ELSE Some([label |-> field[1].label, currencyCode |-> Undefined, value |-> Str(field[1].value)])

\* the balances Loyalty.toGoogle puts on the loyalty object
loyaltyObjectBalances(a) ==
  [loyaltyPoints |-> toGoogleBalanceField(balanceOfField(a.primaryBalance)),
   secondaryLoyaltyPoints |-> toGoogleBalanceField(balanceOfField(a.secondaryBalance))]

\* the content keys and transit types an archive may carry
ContentKeys == {"generic", "storeCard", "eventTicket", "coupon", "boardingPass"}
TransitTypeValues ==
  {Undefined, "PKTransitTypeAir", "PKTransitTypeTrain", "PKTransitTypeBoat",
   "PKTransitTypeBus", "PKTransitTypeGeneric", "PKTransitTypeRocket"}

\* number of content fields of the archives decoded with hints
MaxDecodeFields == 2

\* the fields those archives draw from
DecodeFields ==
  { [key |-> "name", label |-> "Event", value |-> "Gig"],
    [key |-> "name", label |-> "Event", value |-> " "],
    [key |-> "points", label |-> "Points", value |-> "10"],
    [key |-> "tier", label |-> "Tier", value |-> "Gold"],
    [key |-> "date", label |-> "Date", value |-> "2024-05-01"],
    [key |-> "flight", label |-> "Flight", value |-> "LH 123"] }

\* hint tables: none, the hint names the README documents, and the hint
\* names the variants resolve
NoHints == << >>
SharedHints ==
  ("event.name" :> "name") @@ ("flight.date" :> "date") @@ ("flight.flightNumber" :> "flight")
DocumentedHints ==
  SharedHints @@ ("loyalty.primaryPoints" :> "points") @@ ("loyalty.secondaryPoints" :> "tier")
ResolvedHints ==
  SharedHints @@ ("loyalty.primaryBalance" :> "points") @@ ("loyalty.secondaryBalance" :> "tier")
DecodeHintConfigs == {NoHints, DocumentedHints, ResolvedHints}

\* the buckets of one content key: the first field in primaryFields, the
\* others in backFields
ContentBuckets(transitType, fields) ==
  [transitType |-> transitType,
   headerFields |-> << >>,
   primaryFields |-> IF Len(fields) = 0 THEN << >> ELSE <<fields[1]>>,
   secondaryFields |-> << >>,
   auxiliaryFields |-> << >>,
   backFields |-> IF Len(fields) = 0 THEN << >> ELSE Tail(fields)]

\* a pass.json with the given content keys
PassJson(keys, transitType, fields, logoText, desc) ==
  [content |-> [k \in keys |->
                  ContentBuckets(IF k = "boardingPass" THEN transitType ELSE Undefined, fields)],
   logoText |-> logoText,
   description |-> desc,
   departureCode |-> Undefined,
   arrivalCode |-> Undefined]

\* archives with any set of content keys and no content fields
SelectionArchives ==
  { PassJson(keys, tt, << >>, logoText, "Desc") :
      keys \in SUBSET ContentKeys, tt \in TransitTypeValues, logoText \in {Undefined, "Title"} }

\* archives with one content key and up to MaxDecodeFields content fields
HintedArchives ==
  { PassJson({k}, tt, fields, logoText, desc) :
      k \in ContentKeys,
      tt \in {"PKTransitTypeAir", "PKTransitTypeBus"},
      fields \in UNION {[1..n -> DecodeFields] : n \in 0..MaxDecodeFields},
      logoText \in {Undefined, "Title"},
      desc \in {Undefined, "Desc"} }

InitDecode ==
  /\ pc = "fromPkPass"
  /\ thrown = "none"
  /\ DispatchIdle
  /\ \/ json \in SelectionArchives /\ hints = NoHints
     \/ json \in HintedArchives /\ hints \in DecodeHintConfigs
  /\ emptyValue \in {Undefined, "N/A"}
  /\ signing = {}
  /\ defaultLanguage = Undefined
  /\ PassIdle
  /\ HintIdle
  /\ OutputIdle /\ ServerIdle

\* static Pass.fromPkPass up to pass.update: pick the variant, set the
\* shared fields
CreatePass ==
  /\ pc = "fromPkPass"
  /\ LET cls == createPassForType(json) IN
       IF cls = Undefined
         THEN /\ pc' = "done"
              /\ thrown' = "TypeError"
              /\ UNCHANGED passVars
         ELSE LET content == json.content[pkpassContentFields(cls)] IN
              /\ pc' = "variantFromPkPass"
              /\ thrown' = thrown
              /\ variant' = cls
              /\ title' = json.logoText
              /\ description' = json.description
              /\ frontContent' = nonEmptyRows(<<content.headerFields, content.primaryFields,
                                               content.secondaryFields, content.auxiliaryFields>>)
              /\ backContent' = content.backFields
              /\ UNCHANGED <<hinted, attrs, barcode, strings>>
  /\ UNCHANGED <<dispatchVars, json, configVars, serverVars, hintVars, outputVars>>

\* pass.fromPkPass(json): the variant's own decode
VariantFromPkPass ==
  /\ pc = "variantFromPkPass"
  /\ pc' = "done"
  /\ CASE variant = "Loyalty" ->
            LET r == loyaltyFromPkPass(PassContent, hints) IN
            /\ frontContent' = r.front /\ backContent' = r.back /\ hinted' = r.hinted
            /\ attrs' = r.attrs
            /\ UNCHANGED <<thrown, title>>
       [] variant = "Event" ->
            LET r == eventFromPkPass(PassContent, hints, emptyValue, title) IN
            /\ frontContent' = r.front /\ backContent' = r.back /\ hinted' = r.hinted
            /\ thrown' = r.thrown
            /\ title' = IF r.thrown = "none" THEN r.title ELSE title
            /\ UNCHANGED attrs
       [] variant = "Offer" ->
            /\ title' = offerTitle(json)
            /\ UNCHANGED <<thrown, frontContent, backContent, hinted, attrs>>
       [] variant = "Flight" ->
            LET r == flightFromPkPass(PassContent, hints, emptyValue, json) IN
            /\ frontContent' = r.front /\ backContent' = r.back /\ hinted' = r.hinted
            /\ thrown' = r.thrown
            /\ attrs' = IF r.thrown = "none" THEN r.attrs ELSE attrs
            /\ UNCHANGED title
       [] variant = "Transit" ->
            LET r == transitFromPkPass(PassContent, hints, emptyValue, json) IN
            /\ frontContent' = r.front /\ backContent' = r.back /\ hinted' = r.hinted
            /\ attrs' = r.attrs
            /\ UNCHANGED <<thrown, title>>
       [] OTHER ->
            UNCHANGED <<thrown, title, frontContent, backContent, hinted, attrs>>
  /\ UNCHANGED <<dispatchVars, json, configVars, serverVars, variant, description, barcode, strings,
                 hintVars, outputVars>>

NextDecode == CreatePass \/ VariantFromPkPass

SpecDecode == InitDecode /\ [][NextDecode]_vars

----------------------------------------------------------------------------
(* Barcodes (utils.js) and the barcode of a pass                            *)

\* Barcodes.formats
formats ==
  [AZTEC |-> [pkpass |-> "PKBarcodeFormatAztec", googleLegacy |-> <<"aztec">>],
   CODE_128 |-> [pkpass |-> "PKBarcodeFormatCode128", googleLegacy |-> <<"code128">>],
   PDF_417 |-> [pkpass |-> "PKBarcodeFormatPDF417", googleLegacy |-> <<"pdf417", "PDF417">>],
   QR_CODE |-> [pkpass |-> "PKBarcodeFormatQR", googleLegacy |-> <<"qrCode">>]]

\* property names every plain object inherits from Object.prototype; the
\* inherited value is a function, written "function" here
PrototypeKeys == {"constructor", "toString"}

\* obj[key] for a plain object whose own values are strings
ObjectGet(obj, key) ==
  IF key \in DOMAIN obj THEN obj[key]
  ELSE IF key \in PrototypeKeys THEN "function"
  ELSE Undefined

\* is obj[key] truthy, for a plain object whose own values are objects?
ObjectHas(obj, key) == key \in DOMAIN obj \/ key \in PrototypeKeys

\* pkPassFormats of Barcodes.fromPkPass: archive format -> canonical name
pkPassFormats ==
  [f \in {formats[c].pkpass : c \in DOMAIN formats} |->
     CHOOSE c \in DOMAIN formats : formats[c].pkpass = f]

\* legacyFormats of Barcodes.fromGoogle: legacy alias -> canonical name
legacyFormats ==
  [a \in UNION {{formats[c].googleLegacy[i] : i \in DOMAIN formats[c].googleLegacy} :
                c \in DOMAIN formats} |->
     CHOOSE c \in DOMAIN formats :
       \E i \in DOMAIN formats[c].googleLegacy : formats[c].googleLegacy[i] = a]

\* Barcodes.fromPkPass: every barcode of the list overwrites matched, so the
\* last one is returned; nothing for an empty list
Barcodes_fromPkPass(list) ==
  IF Len(list) = 0 THEN None
  ELSE Some([message |-> list[Len(list)].message,
             format |-> ObjectGet(pkPassFormats, list[Len(list)].format)])

\* Barcodes.fromGoogle: b is the payload barcode, if any
Barcodes_fromGoogle(b) ==
  IF b # None /\ (ObjectHas(formats, b[1].type) \/ Truthy(ObjectGet(legacyFormats, b[1].type)))
    THEN Some([format |-> IF Truthy(ObjectGet(legacyFormats, b[1].type))
                            THEN ObjectGet(legacyFormats, b[1].type)
                            ELSE b[1].type,
               message |-> b[1].value])
  ELSE None

\* the barcodes handed to Barcodes.fromPkPass by Pass.fromPkPass:
\* json.barcodes ? json.barcodes : json.barcode ? [json.barcode] : []
archiveBarcodeList(js) ==
  IF js.barcodes # None THEN js.barcodes[1]
  ELSE IF js.barcode # None THEN js.barcode
  ELSE << >>

\* the payload barcode written with the archive's format string as its type
toGoogleBarcode_ArchiveFormat(b) ==
  IF b = None THEN None
  ELSE Some([type |-> IF b[1].format \in DOMAIN formats THEN formats[b[1].format].pkpass
                      ELSE b[1].format,
             value |-> b[1].message])

\* the barcode Pass.toGoogle puts on the object
toGoogleBarcode(b) ==
  IF b = None THEN None
  ELSE Some([type |-> b[1].format, value |-> b[1].message])

\* does Pass.toPkPass throw on barcodes.formats[this.barcode.format].pkpass?
toPkPassBarcodeThrows(b) == b # None /\ b[1].format \notin DOMAIN formats

\* the barcodes Pass.toPkPass writes to pass.json
toPkPassBarcodes(b) ==
  IF b = None THEN None
  ELSE Some(<<[message |-> b[1].message, format |-> formats[b[1].format].pkpass]>>)

\* bounds of the barcode runs: barcodes listed by an archive, conversions
\* applied in a row
MaxBarcodes == 2
MaxBarcodeSteps == 4

\* archive format strings: the four of Barcodes.formats, one the table does
\* not know, and a missing format
ArchiveBarcodeFormats ==
  {formats[c].pkpass : c \in DOMAIN formats} \cup {"PKBarcodeFormatEAN13", Undefined}

\* payload barcode types: canonical names, legacy aliases, a type the table
\* does not know, a missing type, and the name of an inherited property
PayloadBarcodeTypes ==
  DOMAIN formats \cup DOMAIN legacyFormats \cup {"UPC_A", Undefined, "constructor"}

BarcodeMessages == {"m1", "m2"}

ArchiveBarcodes == [format : ArchiveBarcodeFormats, message : BarcodeMessages]

\* the barcode keys of a pass.json: no key, a barcodes list, or the single
\* barcode key
ArchiveBarcodeKeys ==
  {[barcodes |-> None, barcode |-> None]}
  \cup {[barcodes |-> Some(list), barcode |-> None] :
          list \in UNION {[1..n -> ArchiveBarcodes] : n \in 0..MaxBarcodes}}
  \cup {[barcodes |-> None, barcode |-> Some(b)] : b \in ArchiveBarcodes}

\* the barcode of a payload object, if any
PayloadBarcodes ==
  {None} \cup {Some([type |-> t, value |-> m]) : t \in PayloadBarcodeTypes, m \in BarcodeMessages}

\* the class createPassForType picks for a payload prefix
classOfPrefix(p) == CHOOSE cls \in {passClasses[i] : i \in DOMAIN passClasses} : googlePrefix(cls) = p

InitBarcode ==
  /\ thrown = "none"
  /\ credentials = FALSE /\ prefix = Undefined /\ token = Undefined
  /\ requests = << >> /\ result = Undefined
  /\ ConfigIdle
  /\ title = Undefined /\ description = Undefined
  /\ frontContent = << >> /\ backContent = << >> /\ hinted = << >> /\ attrs = << >>
  /\ barcode = None /\ strings = << >>
  /\ HintIdle
  /\ OutputIdle /\ ServerIdle
  /\ \/ /\ pc = "fromPkPass"
        /\ json \in ArchiveBarcodeKeys
        /\ variant \in {passClasses[i] : i \in DOMAIN passClasses}
        /\ googlePass = << >>
     \/ /\ pc = "fromGoogle"
        /\ json = Undefined
        /\ variant = Undefined
        /\ \E p \in Prefixes, b \in PayloadBarcodes : googlePass = [prefix |-> p, barcode |-> b]

barcodeUnchanged ==
  UNCHANGED <<credentials, prefix, token, requests, result, configVars, serverVars, title, description,
              frontContent, backContent, hinted, attrs, strings, returned, outputVars>>

\* Pass.fromPkPass: the barcode of the pass decoded from the archive
BarcodeFromPkPass ==
  /\ pc = "fromPkPass"
  /\ Len(history) < MaxBarcodeSteps
  /\ barcode' = Barcodes_fromPkPass(archiveBarcodeList(json))
  /\ history' = Append(history, [op |-> "fromPkPass", barcode |-> barcode'])
  /\ pc' = "decoded"
  /\ UNCHANGED <<thrown, json, googlePass, variant>>
  /\ barcodeUnchanged

\* Pass.fromGoogle: the barcode of the pass decoded from the payload
BarcodeFromGoogle ==
  /\ pc = "fromGoogle"
  /\ Len(history) < MaxBarcodeSteps
  /\ variant' = classOfPrefix(googlePass.prefix)
  /\ barcode' = Barcodes_fromGoogle(googlePass.barcode)
  /\ history' = Append(history, [op |-> "fromGoogle", barcode |-> barcode'])
  /\ pc' = "decoded"
  /\ UNCHANGED <<thrown, json, googlePass>>
  /\ barcodeUnchanged

\* Pass.toGoogle: the barcode of the payload object
BarcodeToGoogle ==
  /\ pc = "decoded"
  /\ Len(history) < MaxBarcodeSteps
  /\ googlePass' = [prefix |-> googlePrefix(variant), barcode |-> toGoogleBarcode(barcode)]
  /\ history' = Append(history, [op |-> "toGoogle", barcode |-> barcode])
  /\ pc' = "fromGoogle"
  /\ UNCHANGED <<thrown, json, variant, barcode>>
  /\ barcodeUnchanged

\* Pass.toPkPass: the barcodes key of the archive's pass.json
BarcodeToPkPass ==
  /\ pc = "decoded"
  /\ Len(history) < MaxBarcodeSteps
  /\ history' = Append(history, [op |-> "toPkPass", barcode |-> barcode])
  /\ IF toPkPassBarcodeThrows(barcode)
       THEN /\ thrown' = "TypeError"
            /\ pc' = "done"
            /\ json' = json
       ELSE /\ thrown' = thrown
            /\ pc' = "fromPkPass"
            /\ json' = [barcodes |-> toPkPassBarcodes(barcode), barcode |-> None]
  /\ UNCHANGED <<googlePass, variant, barcode>>
  /\ barcodeUnchanged

NextBarcode ==
  \/ BarcodeFromPkPass
  \/ BarcodeFromGoogle
  \/ BarcodeToGoogle
  \/ BarcodeToPkPass

SpecBarcode == InitBarcode /\ [][NextBarcode]_vars

----------------------------------------------------------------------------
(* Loyalty balances: Loyalty.toGoogle and Loyalty.fromGoogle                 *)

\* the balance values of the runs: numbers in thousandths, and strings
BalanceMillis == {-500, 0, 5, 500, 1005, 1500, 12000, 12300, 12345}
BalanceTexts == {"", "0", "12", "12.3", "1.50", "Gold"}
BalanceValues == {Num(m) : m \in BalanceMillis} \cup {Str(t) : t \in BalanceTexts}

\* currency codes: none, codes precision() knows in either case, one it
\* does not know
CurrencyCodes == {Undefined, "JPY", "usd", "BHD", "XXX"}

BalanceFields ==
  [label : {Undefined, "Points"}, currencyCode : CurrencyCodes, value : BalanceValues]

InitBalance ==
  /\ pc = "toGoogle"
  /\ thrown = "none"
  /\ credentials = FALSE /\ prefix = Undefined /\ token = Undefined
  /\ requests = << >> /\ result = Undefined
  /\ googlePass = << >>
  /\ json = Undefined
  /\ ConfigIdle
  /\ variant = "Loyalty"
  /\ title = Undefined /\ description = Undefined
  /\ frontContent = << >> /\ backContent = << >> /\ hinted = << >>
  /\ barcode = None /\ strings = << >>
  /\ \E primary \in BalanceFields :
       \E secondary \in {None, Some([label |-> "Tier", currencyCode |-> Undefined,
                                      value |-> Str("Gold")])} :
         attrs = [primaryBalance |-> Some(primary), secondaryBalance |-> secondary]
  /\ HintIdle
  /\ OutputIdle /\ ServerIdle

balanceUnchanged ==
  UNCHANGED <<credentials, prefix, token, requests, result, json, configVars, serverVars, variant, title,
              description, frontContent, backContent, hinted, barcode, strings, returned,
              outputVars>>

\* Loyalty.toGoogle: the balances of the loyalty object
BalanceToGoogle ==
  /\ pc = "toGoogle"
  /\ googlePass' = [loyaltyPoints |-> toGoogleBalanceField(attrs.primaryBalance),
                    secondaryLoyaltyPoints |-> toGoogleBalanceField(attrs.secondaryBalance)]
  /\ history' = Append(history, [op |-> "toGoogle", attrs |-> attrs])
  /\ pc' = "fromGoogle"
  /\ UNCHANGED <<thrown, attrs>>
  /\ balanceUnchanged

\* Loyalty.fromGoogle: the balances of the pass, primary first
BalanceFromGoogle ==
  /\ pc = "fromGoogle"
  /\ LET primary == fromGoogleBalanceField(googlePass.loyaltyPoints)
         secondary == fromGoogleBalanceField(googlePass.secondaryLoyaltyPoints)
     IN /\ thrown' = IF primary.thrown # "none" THEN primary.thrown ELSE secondary.thrown
        /\ attrs' = IF thrown' = "none"
                      THEN [primaryBalance |-> primary.ret, secondaryBalance |-> secondary.ret]
                      ELSE attrs
  /\ history' = Append(history, [op |-> "fromGoogle", attrs |-> attrs'])
  /\ pc' = "done"
  /\ UNCHANGED googlePass
  /\ balanceUnchanged

NextBalance == BalanceToGoogle \/ BalanceFromGoogle

SpecBalance == InitBalance /\ [][NextBalance]_vars

----------------------------------------------------------------------------
(* Localized strings: pass.strings, defaultLanguage, toGoogleLocalizedField  *)

\* pass.strings is a sequence of [language, table] in insertion order, with
\* distinct languages; table maps a default text to its translation

\* Object.keys(this.strings)
languagesOf(table) == [i \in DOMAIN table |-> table[i].language]

\* this.strings[language]: is it there?
hasLanguage(table, language) == \E i \in DOMAIN table : table[i].language = language

\* this.strings[language], where there
stringsOf(table, language) ==
  table[CHOOSE i \in DOMAIN table : table[i].language = language].table

\* get defaultLanguage(): the first language of the pass when it has strings
\* but none in the configured default language
passDefaultLanguage(table, configured) ==
  IF Len(table) > 0 /\ ~(hasLanguage(table, configured) /\ configured # Undefined)
    THEN table[1].language
    ELSE configured

\* getString of toGoogleLocalizedField: the TranslatedString of value in
\* language
getString(table, empty, language, value) ==
  LET translated ==
        IF hasLanguage(table, language) /\ value \in DOMAIN stringsOf(table, language)
             /\ Truthy(stringsOf(table, language)[value])
          THEN stringsOf(table, language)[value]
          ELSE value
  IN [language |-> language,
      value |-> IF translated = Undefined \/ Blank(translated) THEN empty ELSE translated]

\* every translation is kept
keepTranslation_Always(field, defaultValue) == TRUE

\* the filter of toGoogleLocalizedField: field.value != defaultValue.value
keepTranslation(field, defaultValue) == field.value # defaultValue.value

\* toGoogleLocalizedField: translatedValues is None when the property is
\* undefined
toGoogleLocalizedField(table, configured, empty, value) ==
  LET defaultValue == getString(table, empty, passDefaultLanguage(table, configured), value)
      all == [i \in DOMAIN table |-> getString(table, empty, table[i].language, value)]
      translatedValues == SelectSeq(all, LAMBDA field : keepTranslation(field, defaultValue))
  IN [defaultValue |-> defaultValue,
      translatedValues |-> IF Len(translatedValues) > 0 THEN Some(translatedValues) ELSE None]

\* bounds of the runs: languages of a pass, calls made
MaxLanguages == 2
MaxLocalizedCalls == 2

Languages == {"en", "fr", "de"}
LocalizedTexts == {"Gate", "Seat", " "}
Translations == {"Gate", "Porte", " "}

\* the tables a language can hold: Gate translated or not
LanguageTables == {<< >>} \cup {("Gate" :> t) : t \in Translations}

\* the strings of a pass with up to MaxLanguages languages
StringTables ==
  {s \in UNION {[1..n -> [language : Languages, table : LanguageTables]] : n \in 0..MaxLanguages} :
     \A i \in DOMAIN s : \A j \in DOMAIN s : i # j => s[i].language # s[j].language}

InitLocalized ==
  /\ pc = "localizing"
  /\ thrown = "none"
  /\ DispatchIdle
  /\ json = Undefined
  /\ hints = << >>
  /\ emptyValue \in {Undefined, "N/A"}
  /\ signing = {}
  /\ defaultLanguage \in {"en"}
  /\ variant = "Generic"
  /\ title = Undefined /\ description = Undefined
  /\ frontContent = << >> /\ backContent = << >> /\ hinted = << >> /\ attrs = << >>
  /\ barcode = None
  /\ strings \in StringTables
  /\ HintIdle
  /\ OutputIdle /\ ServerIdle

\* one call of toGoogleLocalizedField(value)
CallToGoogleLocalizedField(value) ==
  /\ pc = "localizing"
  /\ Len(history) < MaxLocalizedCalls
  /\ returned' = toGoogleLocalizedField(strings, defaultLanguage, emptyValue, value)
  /\ history' = Append(history, [value |-> value, ret |-> returned'])
  /\ UNCHANGED <<pc, thrown, dispatchVars, json, configVars, serverVars, passVars, outputVars>>

NextLocalized == \E value \in LocalizedTexts : CallToGoogleLocalizedField(value)

SpecLocalized == InitLocalized /\ [][NextLocalized]_vars

----------------------------------------------------------------------------
(* Strings tables: addStrings of Pass.fromGoogle, Lproj.export, Lproj.parse  *)

\* A text of these runs is a sequence of atoms: a word, or one of the
\* characters the string code treats specially.
Quote == "\""
Backslash == "\\"
Newline == "\n"

\* is pattern a prefix of text?
startsWith(text, pattern) ==
  Len(text) >= Len(pattern) /\ SubSeq(text, 1, Len(pattern)) = pattern

\* text.replace(/pattern/g, by): every match, left to right
RECURSIVE replaceAll(_, _, _)
replaceAll(text, pattern, by) ==
  IF Len(text) = 0 THEN << >>
  ELSE IF startsWith(text, pattern)
    THEN by \o replaceAll(SubSeq(text, Len(pattern) + 1, Len(text)), pattern, by)
  ELSE <<Head(text)>> \o replaceAll(Tail(text), pattern, by)

\* text.replace(pattern, by): the first match only
RECURSIVE replaceFirst(_, _, _)
replaceFirst(text, pattern, by) ==
  IF Len(text) = 0 THEN << >>
  ELSE IF startsWith(text, pattern)
    THEN by \o SubSeq(text, Len(pattern) + 1, Len(text))
  ELSE <<Head(text)>> \o replaceFirst(Tail(text), pattern, by)

\* text.split(separator), the part being collected in current
RECURSIVE splitFrom(_, _, _)
splitFrom(text, separator, current) ==
  IF Len(text) = 0 THEN <<current>>
  ELSE IF startsWith(text, separator)
    THEN <<current>> \o splitFrom(SubSeq(text, Len(separator) + 1, Len(text)), separator, << >>)
  ELSE splitFrom(Tail(text), separator, Append(current, Head(text)))

split(text, separator) == splitFrom(text, separator, << >>)

\* the escaping JSON.stringify applies inside a string
RECURSIVE jsonEscape(_)
jsonEscape(text) ==
  IF Len(text) = 0 THEN << >>
  ELSE (CASE Head(text) = Quote -> <<Backslash, Quote>>
          [] Head(text) = Backslash -> <<Backslash, Backslash>>
          [] Head(text) = Newline -> <<Backslash, "n">>
          [] OTHER -> <<Head(text)>>)
       \o jsonEscape(Tail(text))

\* JSON.stringify(obj) of a table whose keys are listed in keys
RECURSIVE jsonMembers(_, _)
jsonMembers(table, keys) ==
  IF Len(keys) = 0 THEN << >>
  ELSE <<Quote>> \o jsonEscape(Head(keys)) \o <<Quote, ":", Quote>>
       \o jsonEscape(table[Head(keys)]) \o <<Quote>>
       \o (IF Len(keys) > 1 THEN <<",">> ELSE << >>)
       \o jsonMembers(table, Tail(keys))

jsonStringify(table, keys) == <<"{">> \o jsonMembers(table, keys) \o <<"}">>

\* Lproj.export(obj), the keys of obj enumerated in the order keys
lprojExport(table, keys) ==
  LET replaced == replaceAll(replaceAll(jsonStringify(table, keys),
                                        <<Quote, ":", Quote>>, <<Quote, " ", "=", " ", Quote>>),
                             <<Quote, ",">>, <<Quote, ";", Newline>>)
  IN SubSeq(replaced, 2, Len(replaced) - 1) \o <<";">>

\* stripComments(s): the texts of these runs hold no comment
stripComments(text) == text

\* line.slice(line.indexOf('"') + 1)
RECURSIVE afterFirstQuote(_)
afterFirstQuote(line) ==
  IF \A i \in DOMAIN line : line[i] # Quote THEN line
  ELSE IF Head(line) = Quote THEN Tail(line)
  ELSE afterFirstQuote(Tail(line))

\* the [key, value, ...] parts Lproj.parse makes of one line
lprojLine(line) ==
  split(replaceFirst(afterFirstQuote(line), <<Newline>>, << >>),
        <<Quote, " ", "=", " ", Quote>>)

\* Object.fromEntries(parts): a later entry with the same key wins
RECURSIVE fromEntries(_)
fromEntries(parts) ==
  IF Len(parts) = 0 THEN << >>
  ELSE LET rest == fromEntries(Tail(parts))
       IN IF Head(parts)[1] \in DOMAIN rest THEN rest
          ELSE (Head(parts)[1] :> Head(parts)[2]) @@ rest

\* Lproj.parse(s)
lprojParse(text) ==
  LET lines == split(stripComments(text), <<Quote, ";">>)
      parts == [i \in DOMAIN lines |-> lprojLine(lines[i])]
  IN fromEntries(SelectSeq(parts, LAMBDA line : Len(line) > 1))

\* language + lproj.suffix
lprojName(language) ==
  CASE language = "en" -> "en.lproj/pass.strings"
    [] language = "fr" -> "fr.lproj/pass.strings"
    [] language = "de" -> "de.lproj/pass.strings"

\* name.indexOf(lproj.suffix) > -1
isLprojName(name) == \E l \in Languages : lprojName(l) = name

\* name.split(lproj.suffix)[0]
languageOfName(name) == CHOOSE l \in Languages : lprojName(l) = name

\* strings[language][key] = value, creating strings[language] if needed
setString(table, language, key, value) ==
  IF hasLanguage(table, language)
    THEN [i \in DOMAIN table |->
            IF table[i].language = language
              THEN [language |-> language, table |-> (key :> value) @@ table[i].table]
              ELSE table[i]]
    ELSE Append(table, [language |-> language, table |-> (key :> value)])

RECURSIVE setStrings(_, _, _)
setStrings(table, key, list) ==
  IF Len(list) = 0 THEN table
  ELSE setStrings(setString(table, Head(list).language, key, Head(list).value), key, Tail(list))

\* addStrings(_strings) of Pass.fromGoogle: the translations, then the
\* default, each keyed by the default value; nothing for a missing field
addStrings(table, field) ==
  IF field = None THEN table
  ELSE setStrings(table, field[1].defaultValue.value,
                  field[1].translatedValues \o <<field[1].defaultValue>>)

\* fromGoogleLocalizedField: the default value of a LocalizedString
fromGoogleLocalizedField(field) == field[1].defaultValue.value

----------------------------------------------------------------------------
(* Archive encode: Pass.fromGoogle (strings), Pass.toPkPass, Pass.fromPkPass *)

\* the five settings toPkPass tests before signing
SigningSettings ==
  {"pkPassSigningCertPath", "pkPassSigningKeyPath", "pkPassWwdrCertPath",
   "pkPassPassTypeId", "pkPassTeamId"}

signingConfigured_WithoutTeamId(configured) ==
  (SigningSettings \ {"pkPassTeamId"}) \subseteq configured

\* the condition of the if around the signing code; configured is the set
\* of settings with a truthy value
signingConfigured(configured) == SigningSettings \subseteq configured

\* the orders in which the keys of a table can be enumerated
keyOrders(table) ==
  {o \in [1..Cardinality(DOMAIN table) -> DOMAIN table] :
     \A k \in DOMAIN table : \E i \in DOMAIN o : o[i] = k}

\* the entries Object.keys(this.strings).forEach adds: one per language
RECURSIVE lprojFiles(_)
lprojFiles(table) ==
  IF Len(table) = 0 THEN {<< >>}
  ELSE {<<[entryName |-> lprojName(Head(table).language),
           data |-> lprojExport(Head(table).table, o)]>> \o rest :
          o \in keyOrders(Head(table).table), rest \in lprojFiles(Tail(table))}

entryNames(entries) == [i \in DOMAIN entries |-> entries[i].entryName]

\* the manifest: one line per entry of the archive so far
manifestOf(entries) == entryNames(entries)

\* the strings Pass.fromPkPass reads: one table per lproj entry
RECURSIVE stringsOfFiles(_)
stringsOfFiles(entries) ==
  IF Len(entries) = 0 THEN << >>
  ELSE IF isLprojName(Head(entries).entryName)
    THEN <<[language |-> languageOfName(Head(entries).entryName),
            table |-> lprojParse(Head(entries).data)]>> \o stringsOfFiles(Tail(entries))
  ELSE stringsOfFiles(Tail(entries))

MaxTextLen == 2

RECURSIVE textsUpTo(_, _)
textsUpTo(atoms, n) ==
  IF n = 0 THEN {<< >>}
  ELSE textsUpTo(atoms, n - 1) \cup
       {Append(t, a) : t \in textsUpTo(atoms, n - 1), a \in atoms}

TranslatedTexts == textsUpTo({"Porte", Quote, Backslash, Newline}, MaxTextLen)

LocalizedString(language, value, translatedValues) ==
  [defaultValue |-> [language |-> language, value |-> value],
   translatedValues |-> translatedValues]

\* localizedHeader of the text module the class template shows
PayloadHeaders ==
  {None, Some(LocalizedString("en", <<"Gate">>, << >>))} \cup
  {Some(LocalizedString("en", <<"Gate">>, <<[language |-> "fr", value |-> t]>>)) :
     t \in TranslatedTexts}

\* localizedBody of that text module
PayloadBodies ==
  {None, Some(LocalizedString("en", <<"Seat">>, <<[language |-> "de", value |-> <<"Sitz">>]>>))}

\* localizedTitle of the offer class
PayloadTitles ==
  {Some(LocalizedString("en", <<"Sale">>, << >>)),
   Some(LocalizedString("en", <<"Sale">>, <<[language |-> "fr", value |-> <<"Solde">>]>>))}

InitArchive ==
  /\ pc = "payload"
  /\ thrown = "none"
  /\ credentials = FALSE /\ prefix = "offer" /\ token = Undefined
  /\ requests = << >> /\ result = Undefined
  /\ googlePass \in [localizedHeader : PayloadHeaders, localizedBody : PayloadBodies,
                     localizedTitle : PayloadTitles]
  /\ json = Undefined
  /\ hints = << >> /\ emptyValue = Undefined /\ defaultLanguage = "en"
  /\ signing \in SUBSET SigningSettings
  /\ PassIdle
  /\ HintIdle
  /\ OutputIdle /\ ServerIdle

\* Pass.fromGoogle of an offer payload: the strings of the text module shown
\* by the template, then Offer.fromGoogle
ArchiveFromGoogle ==
  /\ pc = "payload"
  /\ pc' = "pass"
  /\ variant' = "Offer"
  /\ strings' = addStrings(addStrings(<< >>, googlePass.localizedHeader),
                           googlePass.localizedBody)
  /\ title' = fromGoogleLocalizedField(googlePass.localizedTitle)
  /\ UNCHANGED <<thrown, dispatchVars, json, configVars, serverVars, description, frontContent,
                 backContent, hinted, attrs, barcode, hintVars, outputVars>>

\* Pass.toPkPass: pass.json, the two images, the string tables, the
\* manifest, and the signature when signing is configured. The openssl
\* process may or may not write the signature file; its result is not
\* looked at, and reading a file that is not there throws.
ArchiveToPkPass ==
  /\ pc = "pass"
  /\ \E files \in lprojFiles(strings), written \in BOOLEAN :
       LET content == <<[entryName |-> "pass.json", data |-> title],
                        [entryName |-> "icon@2x.png", data |-> <<"logo">>],
                        [entryName |-> "logo@2x.png", data |-> <<"logo">>]>> \o files
           manifest == manifestOf(content)
           unsigned == Append(content, [entryName |-> "manifest.json", data |-> manifest])
       IN IF signingConfigured(signing)
            THEN /\ spawned' = Append(spawned, [command |-> "openssl", in |-> manifest])
                 /\ signatureFile' = written
                 /\ zip' = IF written
                             THEN Append(unsigned, [entryName |-> "signature",
                                                    data |-> <<"signature">>])
                             ELSE unsigned
                 /\ thrown' = IF written THEN "none" ELSE "ENOENT"
                 /\ pc' = IF written THEN "archive" ELSE "failed"
            ELSE /\ zip' = unsigned
                 /\ pc' = "archive"
                 /\ UNCHANGED <<spawned, signatureFile, thrown>>
  /\ history' = Append(history, [strings |-> strings])
  /\ UNCHANGED <<dispatchVars, json, configVars, serverVars, passVars, returned, packInput,
                 textModulesData, cardRowTemplateInfos>>

\* Pass.fromPkPass of the archive just written: the string tables
ArchiveFromPkPass ==
  /\ pc = "archive"
  /\ pc' = "reread"
  /\ strings' = stringsOfFiles(zip)
  /\ UNCHANGED <<thrown, dispatchVars, json, configVars, serverVars, variant, title, description,
                 frontContent, backContent, hinted, attrs, barcode, hintVars, outputVars>>

NextArchive == ArchiveFromGoogle \/ ArchiveToPkPass \/ ArchiveFromPkPass

SpecArchive == InitArchive /\ [][NextArchive]_vars

----------------------------------------------------------------------------
(* Images of encode-to-payload: pkpassImageHandler, toGoogleImageField       *)

\* new URL(imageHost).hostname
hostnameOf(imageHost) ==
  CASE imageHost = "http://localhost:3000/convert/image/" -> "localhost"
    [] imageHost = "http://127.0.0.1:3000/convert/image/" -> "127.0.0.1"
    [] imageHost = "https://converter.example.com/convert/image/" -> "converter.example.com"

\* pkpassImageHandler(imageBuffer, imageHost), imageName being the random
\* name it draws: the URI it resolves to (an option), the name it caches,
\* and whether it throws
pkpassImageHandler(bucket, imageHost, imageName) ==
  IF bucket # Undefined
    THEN [thrown |-> "none", cached |-> {},
          uri |-> Some(<<"https://storage.googleapis.com/", bucket, "/", imageName>>)]
  ELSE IF imageHost # Undefined
    THEN IF hostnameOf(imageHost) \in {"localhost", "127.0.0.1"}
           THEN [thrown |-> "none", cached |-> {}, uri |-> None]
           ELSE [thrown |-> "none", cached |-> {imageName},
                 uri |-> Some(<<imageHost, imageName>>)]
  ELSE [thrown |-> "Cannot determine public host for images", cached |-> {}, uri |-> None]

toGoogleImageField_Always(uri) == Some([sourceUri |-> [uri |-> uri]])

\* toGoogleImageField(uri): an Image object, or undefined for no URI
toGoogleImageField(uri) ==
  IF uri # None THEN Some([sourceUri |-> [uri |-> uri]]) ELSE None

\* the slot of the class or object in which each variant's toGoogle puts
\* the image
imageSlot(v) ==
  CASE v = "Generic" -> <<"genericObjects", "logo">>
    [] v = "Loyalty" -> <<"loyaltyClasses", "programLogo">>
    [] v = "Event" -> <<"eventTicketClasses", "logo">>
    [] v = "Offer" -> <<"offerClasses", "titleImage">>
    [] v = "Flight" -> <<"flightClasses", "flightHeader", "carrier", "airlineLogo">>
    [] v = "Transit" -> <<"transitClasses", "logo">>

MaxImageCalls == 2

ImageHosts ==
  {Undefined, "http://localhost:3000/convert/image/",
   "http://127.0.0.1:3000/convert/image/", "https://converter.example.com/convert/image/"}

ImageNames == {"image-a.png", "image-b.png"}

InitImage ==
  /\ pc = "pass"
  /\ thrown = "none"
  /\ DispatchIdle
  /\ json = Undefined
  /\ ConfigIdle
  /\ variant \in {passClasses[i] : i \in DOMAIN passClasses}
  /\ title = Undefined /\ description = Undefined
  /\ frontContent = << >> /\ backContent = << >> /\ hinted = << >>
  /\ attrs \in {("logo" :> "icon@2x.png"), ("logo" :> Undefined)}
  /\ barcode = None /\ strings = << >>
  /\ HintIdle
  /\ OutputIdle
  /\ demo = FALSE /\ authHeader = Undefined
  /\ storageBucket \in {Undefined, "bucket"}
  /\ images = {}
  /\ registrations = << >> /\ responses = << >> /\ pushed = << >> /\ conversions = << >>

\* the image part of a variant's toGoogle with the service's handler:
\* await imageHandler(this.logo), then toGoogleImageField into the slot
ImageToGoogle(imageHost, imageName) ==
  /\ pc = "pass"
  /\ Len(history) < MaxImageCalls
  /\ LET handled == pkpassImageHandler(storageBucket, imageHost, imageName)
     IN /\ thrown' = handled.thrown
        /\ images' = images \cup handled.cached
        /\ returned' = handled.uri
        /\ googlePass' = IF handled.thrown = "none"
                           THEN [slot |-> imageSlot(variant),
                                 image |-> toGoogleImageField(handled.uri)]
                           ELSE << >>
        /\ history' = Append(history, [imageHost |-> imageHost, thrown |-> handled.thrown,
                                       uri |-> handled.uri, payload |-> googlePass'])
  /\ UNCHANGED <<pc, credentials, prefix, token, requests, result, json, configVars,
                 passVars, outputVars, demo, authHeader, storageBucket, registrations,
                 responses, pushed, conversions>>

NextImage == \E imageHost \in ImageHosts, imageName \in ImageNames :
               ImageToGoogle(imageHost, imageName)

SpecImage == InitImage /\ [][NextImage]_vars

----------------------------------------------------------------------------
(* The web service: the /convert/ middleware and handlers, device            *)
(* registrations                                                             *)

\* obj[name] for an object given as its set of own keys: the key is the name
\* converted to a string, so that obj[undefined] reads the key 'undefined'
hasProperty(keys, name) == name \in keys

\* the answer of the middleware of /convert/
Answer(status) == [next |-> FALSE, status |-> status]

\* the middleware of /convert/ lets the request go on to the handler
CallNext == [next |-> TRUE, status |-> 0]

\* the outcome of the middleware of /convert/
convertMiddleware(isDemo, header, headers, files) ==
  IF ~isDemo /\ ~hasProperty(headers, header) THEN Answer(401)
  ELSE IF ~files THEN Answer(400)
  ELSE CallNext

\* req.params[name] for the parameters the route declares
param(params, name) == IF name \in DOMAIN params THEN params[name] ELSE Undefined

\* the uuid both registration handlers build
registrationUuid(params) ==
  <<param(params, "device_id"), "-", param(params, "serial_number")>>

\* the parameters of POST /v1/devices/:deviceId/registrations/:passTypeId/:serialNumber
registerParams(device, passType, serial) ==
  [deviceId |-> device, passTypeId |-> passType, serialNumber |-> serial]

\* the parameters of DELETE /v1/devices/:device_id/registrations/:pass_type_id/:serial_number
unregisterParams(device, passType, serial) ==
  [device_id |-> device, pass_type_id |-> passType, serial_number |-> serial]

\* registrations.count({ where: { uuid } })
countUuid(records, uuid) ==
  Cardinality({i \in DOMAIN records : records[i].uuid = uuid})

\* the record the register handler saves
registrationRecord(params, pushToken) ==
  [uuid |-> registrationUuid(params),
   deviceId |-> param(params, "passTypeId"),
   passTypeId |-> param(params, "passTypeId"),
   serialNumber |-> param(params, "serialNumber"),
   pushToken |-> pushToken]

\* registrations.remove(registration) for the first record with the uuid
removeFirst(records, uuid) ==
  LET first == CHOOSE i \in DOMAIN records :
                 /\ records[i].uuid = uuid
                 /\ \A j \in 1..(i - 1) : records[j].uuid # uuid
  IN SubSeq(records, 1, first - 1) \o SubSeq(records, first + 1, Len(records))

\* the push tokens of the registrations found for a serial number
pushTokensOf(records, serial) ==
  LET found == SelectSeq(records, LAMBDA r : r.serialNumber = serial)
  IN [i \in DOMAIN found |-> found[i].pushToken]

MaxRequests == 2

Devices == {"d1", "d2"}
Serials == {"s1", "s2"}
PassTypeId == "pass.example"
pushTokenOf(device) == IF device = "d1" THEN "t1" ELSE "t2"
RequestHeaders == SUBSET {"x-auth", "undefined"}

InitService ==
  /\ pc = "serving"
  /\ thrown = "none"
  /\ DispatchIdle
  /\ json = Undefined
  /\ ConfigIdle /\ PassIdle /\ HintIdle /\ OutputIdle
  /\ demo \in BOOLEAN
  /\ authHeader \in {Undefined, "x-auth"}
  /\ storageBucket = Undefined
  /\ images = {}
  /\ registrations = << >> /\ responses = << >> /\ pushed = << >> /\ conversions = << >>

serviceUnchanged ==
  UNCHANGED <<pc, thrown, credentials, prefix, googlePass, token, result, json, configVars,
              passVars, returned, outputVars, demo, authHeader, storageBucket, images>>

\* one request to /convert/: the middleware, then app.post or app.patch.
\* A payload sent with PATCH notifies the registrations of its serial
\* number; PATCH then updates the object through the API.
Convert(method, headers, files, kind, serial) ==
  /\ pc = "serving"
  /\ Len(responses) < MaxRequests
  /\ LET outcome == convertMiddleware(demo, authHeader, headers, files)
     IN IF ~outcome.next
          THEN /\ responses' = Append(responses, outcome.status)
               /\ UNCHANGED <<conversions, requests, pushed>>
          ELSE /\ conversions' = Append(conversions, [method |-> method, kind |-> kind,
                                                      serial |-> serial])
               /\ pushed' = IF method = "PATCH" /\ kind = "google"
                              THEN pushed \o pushTokensOf(registrations, serial)
                              ELSE pushed
               /\ requests' = IF method = "PATCH"
                                THEN Append(requests, [method |-> "PATCH", id |-> serial])
                                ELSE requests
               /\ \E status \in (IF method = "PATCH" THEN {200, 404}
                                 ELSE IF kind = "google" THEN {200} ELSE {302}) :
                    responses' = Append(responses, status)
  /\ history' = Append(history,
       [op |-> "convert", device |-> Undefined, serial |-> serial,
        carried |-> (authHeader # Undefined /\ authHeader \in headers),
        files |-> files, update |-> (method = "PATCH" /\ kind = "google"),
        status |-> responses'[Len(responses')],
        acted |-> (conversions' # conversions \/ requests' # requests \/ pushed' # pushed),
        pushedTo |-> SubSeq(pushed', Len(pushed) + 1, Len(pushed'))])
  /\ UNCHANGED registrations
  /\ serviceUnchanged

\* one request to register a device: the middleware of /v1/, which finds
\* the pass record or not, then the handler
Register(device, serial, authorized) ==
  /\ pc = "serving"
  /\ Len(responses) < MaxRequests
  /\ LET params == registerParams(device, PassTypeId, serial)
         status == IF ~authorized THEN 401
                   ELSE IF countUuid(registrations, registrationUuid(params)) = 0 THEN 201
                   ELSE 200
     IN /\ registrations' = IF status = 201
                              THEN Append(registrations,
                                          registrationRecord(params, pushTokenOf(device)))
                              ELSE registrations
        /\ responses' = Append(responses, status)
        /\ history' = Append(history,
             [op |-> "register", device |-> device, serial |-> serial, carried |-> authorized,
              files |-> FALSE, update |-> FALSE, status |-> status,
              acted |-> (status = 201), pushedTo |-> << >>])
  /\ UNCHANGED <<conversions, requests, pushed>>
  /\ serviceUnchanged

\* one request to unregister a device
Unregister(device, serial, authorized) ==
  /\ pc = "serving"
  /\ Len(responses) < MaxRequests
  /\ LET params == unregisterParams(device, PassTypeId, serial)
         uuid == registrationUuid(params)
         status == IF ~authorized THEN 401
                   ELSE IF countUuid(registrations, uuid) > 0 THEN 201
                   ELSE 401
     IN /\ registrations' = IF authorized /\ status = 201
                              THEN removeFirst(registrations, uuid)
                              ELSE registrations
        /\ responses' = Append(responses, status)
        /\ history' = Append(history,
             [op |-> "unregister", device |-> device, serial |-> serial,
              carried |-> authorized, files |-> FALSE, update |-> FALSE, status |-> status,
              acted |-> (authorized /\ status = 201), pushedTo |-> << >>])
  /\ UNCHANGED <<conversions, requests, pushed>>
  /\ serviceUnchanged

NextService ==
  \/ \E method \in {"POST", "PATCH"}, headers \in RequestHeaders, files \in BOOLEAN,
        kind \in {"google", "pkpass"}, serial \in Serials :
       Convert(method, headers, files, kind, serial)
  \/ \E device \in Devices, serial \in Serials, authorized \in BOOLEAN :
       Register(device, serial, authorized)
  \/ \E device \in Devices, serial \in Serials, authorized \in BOOLEAN :
       Unregister(device, serial, authorized)

SpecService == InitService /\ [][NextService]_vars

----------------------------------------------------------------------------
(* Title and description: the variants' fromGoogle, pass.json of toPkPass    *)

\* fromGoogleLocalizedField(obj, fieldName) for an object whose localized
\* field is localized (a LocalizedString or nothing) and whose plain field
\* is plain (a text or undefined)
localizedFieldOf(localized, plain) ==
  IF localized # None
    THEN [thrown |-> "none", ret |-> localized[1].defaultValue.value]
  ELSE IF plain = Undefined
    THEN [thrown |-> "TypeError", ret |-> Undefined]
  ELSE [thrown |-> "none", ret |-> plain]

\* the title and description each variant's fromGoogle sets from a payload
\* p; a variant that sets no description leaves it undefined
variantFromGoogle(v, p) ==
  CASE v = "Event" ->
         LET name == localizedFieldOf(p.localizedName, p.name)
         IN [thrown |-> name.thrown, title |-> name.ret, description |-> Undefined]
    [] v = "Offer" ->
         LET name == localizedFieldOf(p.localizedName, p.name)
         IN [thrown |-> name.thrown, title |-> name.ret, description |-> Undefined]
    [] v = "Generic" ->
         LET name == localizedFieldOf(p.localizedName, p.name)
             header == localizedFieldOf(p.localizedHeader, p.header)
         IN [thrown |-> IF name.thrown # "none" THEN name.thrown ELSE header.thrown,
             title |-> name.ret, description |-> header.ret]
    [] v = "Loyalty" ->
         [thrown |-> "none", title |-> p.name, description |-> Undefined]
    [] v = "Flight" ->
         [thrown |-> "none", title |-> p.name, description |-> "UA123"]
    [] v = "Transit" ->
         [thrown |-> "none", title |-> "Paris - Lyon", description |-> Undefined]

\* description: this.description || this.title
passJsonDescription(d, t) == IF Truthy(d) THEN d ELSE t

PayloadTexts == {Undefined, "", "Gala"}

PayloadLocalized ==
  {None} \cup {Some([defaultValue |-> [language |-> "en", value |-> v]]) : v \in {"", "Soiree"}}

DescribedPayloads ==
  [localizedName : PayloadLocalized, name : PayloadTexts,
   localizedHeader : PayloadLocalized, header : PayloadTexts]

InitDescribe ==
  /\ pc = "payload"
  /\ thrown = "none"
  /\ credentials = FALSE /\ prefix = Undefined /\ token = Undefined
  /\ requests = << >> /\ result = Undefined
  /\ googlePass \in DescribedPayloads
  /\ json = Undefined
  /\ ConfigIdle
  /\ variant \in {passClasses[i] : i \in DOMAIN passClasses}
  /\ title = Undefined /\ description = Undefined
  /\ frontContent = << >> /\ backContent = << >> /\ hinted = << >> /\ attrs = << >>
  /\ barcode = None /\ strings = << >>
  /\ HintIdle /\ OutputIdle /\ ServerIdle

\* Pass.fromGoogle: the variant's fromGoogle sets title and description
DescribeFromGoogle ==
  /\ pc = "payload"
  /\ LET decoded == variantFromGoogle(variant, googlePass)
     IN /\ thrown' = decoded.thrown
        /\ pc' = IF decoded.thrown = "none" THEN "pass" ELSE "failed"
        /\ title' = IF decoded.thrown = "none" THEN decoded.title ELSE title
        /\ description' = IF decoded.thrown = "none" THEN decoded.description ELSE description
  /\ UNCHANGED <<dispatchVars, json, configVars, serverVars, variant, frontContent, backContent,
                 hinted, attrs, barcode, strings, hintVars, outputVars>>

\* Pass.toPkPass: logoText and description of pass.json
DescribeToPkPass ==
  /\ pc = "pass"
  /\ pc' = "archive"
  /\ zip' = <<[entryName |-> "pass.json",
               data |-> [logoText |-> title,
                         description |-> passJsonDescription(description, title)]]>>
  /\ UNCHANGED <<thrown, dispatchVars, json, configVars, serverVars, passVars, hintVars, packInput,
                 textModulesData, cardRowTemplateInfos, spawned, signatureFile>>

NextDescribe == DescribeFromGoogle \/ DescribeToPkPass

SpecDescribe == InitDescribe /\ [][NextDescribe]_vars

----------------------------------------------------------------------------
(* Transit types: Transit.fromPkPass, Transit.fromGoogle, Transit.toPkPass   *)

TRANSIT_TYPES_FerryAsBus ==
  ("RAIL" :> "PKTransitTypeTrain") @@ ("FERRY" :> "PKTransitTypeBus") @@
  ("BUS" :> "PKTransitTypeBus") @@ ("TRAM" :> "PKTransitTypeGeneric") @@
  ("OTHER" :> "PKTransitTypeGeneric")

\* TRANSIT_TYPES[type].pkpass
TRANSIT_TYPES ==
  ("RAIL" :> "PKTransitTypeTrain") @@ ("FERRY" :> "PKTransitTypeBoat") @@
  ("BUS" :> "PKTransitTypeBus") @@ ("TRAM" :> "PKTransitTypeGeneric") @@
  ("OTHER" :> "PKTransitTypeGeneric")

\* this.content.transitType = TRANSIT_TYPES[this.transitType.toUpperCase()].pkpass
transitToPkPass(transitType) ==
  IF transitType = Undefined \/ toUpperCase(transitType) \notin DOMAIN TRANSIT_TYPES
    THEN [thrown |-> "TypeError", ret |-> Undefined]
    ELSE [thrown |-> "none", ret |-> TRANSIT_TYPES[toUpperCase(transitType)]]

MaxTransitSteps == 3

\* transitType of a transit class of a payload
PayloadTransitTypes ==
  {Undefined, "TRANSIT_TYPE_UNSPECIFIED", "RAIL", "FERRY", "BUS", "TRAM", "OTHER",
   "rail", "ferry", "bus", "tram", "other"}

InitTransit ==
  /\ pc = "transit"
  /\ thrown = "none"
  /\ DispatchIdle
  /\ json = Undefined
  /\ ConfigIdle
  /\ variant = "Transit"
  /\ title = Undefined /\ description = Undefined
  /\ frontContent = << >> /\ backContent = << >> /\ hinted = << >>
  /\ attrs = [transitType |-> Undefined]
  /\ barcode = None /\ strings = << >>
  /\ HintIdle /\ OutputIdle /\ ServerIdle

transitUnchanged ==
  UNCHANGED <<pc, dispatchVars, json, configVars, serverVars, variant, title, description,
              frontContent, backContent, hinted, barcode, strings, outputVars>>

\* Transit.fromPkPass of an archive with the transit type archiveType
TransitFromPkPass(archiveType) ==
  /\ pc = "transit"
  /\ Len(history) < MaxTransitSteps
  /\ thrown' = "none"
  /\ attrs' = [transitType |-> APPLE_TRANSIT_TYPES[archiveType]]
  /\ returned' = attrs'.transitType
  /\ history' = Append(history, [op |-> "fromPkPass", input |-> archiveType,
                                 thrown |-> "none", ret |-> returned'])
  /\ transitUnchanged

\* Transit.fromGoogle of a class with the transit type payloadType
TransitFromGoogle(payloadType) ==
  /\ pc = "transit"
  /\ Len(history) < MaxTransitSteps
  /\ thrown' = "none"
  /\ attrs' = [transitType |-> payloadType]
  /\ returned' = payloadType
  /\ history' = Append(history, [op |-> "fromGoogle", input |-> payloadType,
                                 thrown |-> "none", ret |-> returned'])
  /\ transitUnchanged

\* Transit.toPkPass: the transit type of the boarding pass it writes
TransitToPkPass ==
  /\ pc = "transit"
  /\ Len(history) < MaxTransitSteps
  /\ LET encoded == transitToPkPass(attrs.transitType)
     IN /\ thrown' = encoded.thrown
        /\ returned' = encoded.ret
        /\ history' = Append(history, [op |-> "toPkPass", input |-> attrs.transitType,
                                       thrown |-> encoded.thrown, ret |-> encoded.ret])
  /\ UNCHANGED attrs
  /\ transitUnchanged

NextTransit ==
  \/ \E archiveType \in DOMAIN APPLE_TRANSIT_TYPES : TransitFromPkPass(archiveType)
  \/ \E payloadType \in PayloadTransitTypes : TransitFromGoogle(payloadType)
  \/ TransitToPkPass

SpecTransit == InitTransit /\ [][NextTransit]_vars

----------------------------------------------------------------------------
(* Content buckets of encode-to-archive: setPkPassContentFields and the      *)
(* variants' toPkPass                                                        *)

\* toPkPassContentField(label, value)
toPkPassContentField(label) == [key |-> label, label |-> label, value |-> "value"]

\* content[key] ||= this.frontContent.shift(): the bucket, and the rows left
shiftInto(bucket, front) ==
  IF bucket # None THEN [bucket |-> bucket, front |-> front]
  ELSE IF Len(front) = 0 THEN [bucket |-> None, front |-> front]
  ELSE [bucket |-> Some(Head(front)), front |-> Tail(front)]

\* setPkPassContentFields(content): primaryFields, secondaryFields and
\* auxiliaryFields take the next front row each unless already set;
\* backFields takes the back content unless already set
setPkPassContentFields(content, front, back) ==
  LET p == shiftInto(content.primaryFields, front)
      s == shiftInto(content.secondaryFields, p.front)
      a == shiftInto(content.auxiliaryFields, s.front)
  IN [content |-> [headerFields |-> content.headerFields,
                   primaryFields |-> p.bucket,
                   secondaryFields |-> s.bucket,
                   auxiliaryFields |-> a.bucket,
                   backFields |-> IF content.backFields # None THEN content.backFields
                                  ELSE back],
      front |-> a.front]

NoContent ==
  [headerFields |-> None, primaryFields |-> None, secondaryFields |-> None,
   auxiliaryFields |-> None, backFields |-> None]

\* the content each variant's toPkPass hands to setPkPassContentFields;
\* balances holds the loyalty balances of the pass (options)
variantContent(v, front, back, balances) ==
  CASE v = "Generic" -> NoContent
    [] v = "Loyalty" ->
         [NoContent EXCEPT
            !.headerFields = IF balances.primaryBalance # None
                               THEN Some(<<balances.primaryBalance[1]>>) ELSE None,
            !.primaryFields = IF balances.secondaryBalance # None
                                THEN Some(<<balances.secondaryBalance[1]>>) ELSE None]
    [] v = "Offer" ->
         [NoContent EXCEPT !.primaryFields = Some(<<toPkPassContentField("title")>>)]
    [] v = "Event" ->
         [NoContent EXCEPT !.primaryFields = Some(<<toPkPassContentField("title")>>)]
    [] v = "Transit" ->
         [NoContent EXCEPT
            !.primaryFields = Some(<<toPkPassContentField("Origin"),
                                     toPkPassContentField("Destination")>>),
            !.secondaryFields = Some(<<toPkPassContentField("Departing"),
                                       toPkPassContentField("Arriving")>>)]
    [] v = "Flight" ->
         [headerFields |-> Some(<<toPkPassContentField("Date"), toPkPassContentField("Flight")>>),
          primaryFields |-> Some(<<toPkPassContentField("From"), toPkPassContentField("To")>>),
          secondaryFields |-> Some(<<toPkPassContentField("Passenger"),
                                     toPkPassContentField("Seat")>>),
          auxiliaryFields |-> Some(<<toPkPassContentField("Gate"), toPkPassContentField("Time")>>),
          backFields |-> Some(flatten(front) \o (IF back = None THEN << >> ELSE back[1]))]

MaxContentRowLen == 2

ContentRowLengths ==
  UNION {[1..n -> 0..MaxContentRowLen] : n \in 0..MaxTemplateRows}

BalanceOptions == {None, Some([key |-> "balance", label |-> "Points", value |-> "10"])}

\* the keys of the front and back fields of the pass
FieldKeys == <<"f1", "f2", "f3", "f4", "f5", "f6", "f7", "f8", "f9", "f10", "f11", "f12">>

\* rows of the given lengths holding fields keyed from FieldKeys[from] on
RECURSIVE KeyedRows(_, _)
KeyedRows(lengths, from) ==
  IF Len(lengths) = 0 THEN << >>
  ELSE <<[i \in 1..Head(lengths) |->
            [key |-> FieldKeys[from + i - 1], label |-> "label", value |-> "value"]]>>
       \o KeyedRows(Tail(lengths), from + Head(lengths))

InitContent ==
  /\ pc = "pass"
  /\ thrown = "none"
  /\ DispatchIdle
  /\ json = Undefined
  /\ ConfigIdle
  /\ variant \in {passClasses[i] : i \in DOMAIN passClasses}
  /\ title = Undefined /\ description = Undefined
  /\ \E lengths \in ContentRowLengths : frontContent = KeyedRows(lengths, 1)
  /\ backContent \in {None, Some(<<[key |-> "back", label |-> "back", value |-> "value"]>>)}
  /\ hinted = << >>
  /\ attrs \in [primaryBalance : BalanceOptions, secondaryBalance : BalanceOptions]
  /\ (variant # "Loyalty") => attrs = [primaryBalance |-> None, secondaryBalance |-> None]
  /\ barcode = None /\ strings = << >>
  /\ HintIdle /\ OutputIdle /\ ServerIdle

\* the variant's toPkPass up to the content of pass.json
ContentToPkPass ==
  /\ pc = "pass"
  /\ pc' = "archive"
  /\ LET set == setPkPassContentFields(variantContent(variant, frontContent, backContent, attrs),
                                       frontContent, backContent)
     IN /\ frontContent' = set.front
        /\ zip' = <<[entryName |-> "pass.json", data |-> set.content]>>
  /\ packInput' = frontContent
  /\ UNCHANGED <<thrown, dispatchVars, json, configVars, serverVars, variant, title, description,
                 backContent, hinted, attrs, barcode, strings, hintVars, textModulesData,
                 cardRowTemplateInfos, spawned, signatureFile>>

NextContent == ContentToPkPass

SpecContent == InitContent /\ [][NextContent]_vars

----------------------------------------------------------------------------
(* Claims about pkPassToGoogle                                             *)

\* pkPassToGoogle returned a save URL
ReturnedUrl == pc = "done" /\ thrown = "none"

\* a payload that holds no class and one object with the key id alone
IdOnlyPayload(payload) ==
  /\ "Classes" \notin DOMAIN payload
  /\ Len(payload["Objects"]) = 1
  /\ DOMAIN payload["Objects"][1] = {"id"}

\* C1: every token pkPassToGoogle returns is at most 1800 characters long, or
\* embeds a payload without a class whose single object holds only its id.
C1_TokenSmallOrIdOnly ==
  ReturnedUrl =>
    \/ result.token.length <= MaxTokenLength
    \/ IdOnlyPayload(result.token.payload)

\* C1 witness: an id-only token of more than 1800 characters was returned
C1_Witness ==
  /\ ReturnedUrl
  /\ result.token.length > MaxTokenLength
  /\ IdOnlyPayload(result.token.payload)

\* the object as toGoogle produced it: the object request carries it once
\* the payload's own copy has been stripped
FullObjectLength ==
  IF Len(requests) = 2 THEN ObjectLength(requests[2].data)
  ELSE ObjectLength(googlePass["Objects"][1])

\* C2: the remote calls follow the size checks in a fixed order: none when the
\* full token fits; otherwise one class-create call, settled before the
\* class is removed; an object-create call only when the class-stripped token
\* is still too large, after the class call has settled and carrying the
\* full object; never more than two calls, never the object call first.
C2_RemoteCallOrder ==
  /\ Len(requests) <= 2
  /\ Len(requests) >= 1 =>
       /\ requests[1].kind = "Class"
       /\ ObjectLength(requests[1].data) + FullObjectLength > MaxTokenLength
  /\ "Classes" \notin DOMAIN googlePass =>
       /\ Len(requests) >= 1
       /\ requests[1].status # "pending"
  /\ Len(requests) = 2 =>
       /\ requests[2].kind = "Object"
       /\ requests[1].status # "pending"
       /\ "Classes" \notin DOMAIN googlePass
       /\ DOMAIN requests[2].data = {"id", "classId", "textModulesData"}
       /\ ObjectLength(requests[2].data) > MaxTokenLength
  /\ DOMAIN googlePass["Objects"][1] = {"id"} =>
       /\ Len(requests) = 2
       /\ requests[2].status # "pending"
  /\ ReturnedUrl /\ Len(requests) = 0 =>
       /\ "Classes" \in DOMAIN result.token.payload
       /\ result.token.length <= MaxTokenLength
  /\ ReturnedUrl /\ Len(requests) = 1 =>
       /\ "Classes" \notin DOMAIN result.token.payload
       /\ result.token.length <= MaxTokenLength

\* C2 witness: both calls were made, class first, and the conversion returned
C2_Witness ==
  /\ ReturnedUrl
  /\ Len(requests) = 2
  /\ requests[1].kind = "Class"
  /\ requests[2].kind = "Object"

\* C3: whatever the outcome of the remote calls, pkPassToGoogle goes on to
\* return a save URL with a token: a failed call does not abort it and the
\* 'token too large' signal of encodeJwt never reaches its caller.
C3_FallbackAlwaysReturns ==
  /\ thrown \in {"none", "NoCredentials"}
  /\ thrown = "NoCredentials" => ~credentials /\ requests = << >>
  /\ pc = "done" /\ credentials =>
       /\ thrown = "none"
       /\ result.url = "https://pay.google.com/gp/v/save/"
       /\ result.token = token
       /\ result.token.payload = googlePass
  /\ pc # "done" => ENABLED NextDispatch

\* C3 witness: both remote calls failed and the save URL was returned
C3_Witness ==
  /\ ReturnedUrl
  /\ Len(requests) = 2
  /\ requests[1].status = "error"
  /\ requests[2].status = "error"

----------------------------------------------------------------------------
(* Claims about Pass.toGoogle                                              *)

Converted == pc = "done" /\ thrown = "none"

Min(a, b) == IF a < b THEN a ELSE b

\* the j-th group of three of a row: items 3j-2 .. 3j, the last group shorter
GroupOfRow(row, j) == SubSeq(row, 3 * j - 2, Min(3 * j, Len(row)))

\* the groups of a row, in order
GroupsOfRow(row) == [j \in 1..((Len(row) + 2) \div 3) |-> GroupOfRow(row, j)]

\* the groups of all rows, concatenated in row order
RECURSIVE GroupsOf(_)
GroupsOf(rows) ==
  IF Len(rows) = 0 THEN << >> ELSE GroupsOfRow(Head(rows)) \o GroupsOf(Tail(rows))

KeysOf(fields) == [i \in DOMAIN fields |-> fields[i].key]

\* the keys a template row references, in slot order
ReferencedKeys(row) == [i \in DOMAIN row.refs |-> row.refs[i][2]]

\* C4: each input row is cut, in order, into groups of 3 items with a last
\* group of 1 to 3; the groups of all rows are concatenated in input order and
\* cardRowTemplateInfos references exactly the first 3 groups, each item by
\* its own key: at most 3 template rows of at most 3 items.
C4_RowPacking ==
  pc = "done" =>
    LET groups == GroupsOf(packInput) IN
    /\ thrown = "none"
    /\ Len(cardRowTemplateInfos) = Min(3, Len(groups))
    /\ Len(cardRowTemplateInfos) <= 3
    /\ \A i \in DOMAIN cardRowTemplateInfos :
         /\ ReferencedKeys(cardRowTemplateInfos[i]) = KeysOf(groups[i])
         /\ Len(cardRowTemplateInfos[i].refs) \in 1..3
         /\ Len(cardRowTemplateInfos[i].slots) = Len(cardRowTemplateInfos[i].refs)
         /\ \A k \in DOMAIN cardRowTemplateInfos[i].refs :
              cardRowTemplateInfos[i].refs[k][1] = "object.textModulesData"

\* C4 witness: a row of 5 was cut into 3 + 2 and more than 3 groups arose
C4_Witness ==
  /\ Converted
  /\ \E r \in DOMAIN packInput : Len(packInput[r]) = 5
  /\ Len(GroupsOf(packInput)) > 3
  /\ Len(cardRowTemplateInfos) = 3

\* C5: one free-text module per front-content item, in flattened input
\* order, with the item's key as id, also for the items of the 4th and
\* later packed rows that the card row template does not reference.
C5_EveryItemHasTextModule ==
  pc = "done" =>
    /\ thrown = "none"
    /\ Len(textModulesData) = Len(flatten(packInput))
    /\ \A i \in DOMAIN textModulesData :
         textModulesData[i].id = flatten(packInput)[i].key
    /\ \A r \in DOMAIN packInput : \A c \in DOMAIN packInput[r] :
         \E i \in DOMAIN textModulesData : textModulesData[i].id = packInput[r][c].key

\* C5 witness: some free-text module is referenced by no template row
C5_Witness ==
  /\ Converted
  /\ \E i \in DOMAIN textModulesData :
       \A r \in DOMAIN cardRowTemplateInfos : \A k \in DOMAIN cardRowTemplateInfos[r].refs :
         cardRowTemplateInfos[r].refs[k][2] # textModulesData[i].id

----------------------------------------------------------------------------
(* Claims about hint resolution                                            *)

\* the fields of a pass content in scan order: front rows, then back content
ScanOrder(content) == flatten(content.front) \o content.back

Contains(fields, field) == \E k \in DOMAIN fields : fields[k] = field

\* C6: hint resolution consumes a field at most once: once a configured hint
\* has resolved to a field, every later call with that hint, or with another
\* hint configured to the same archive field name, returns the same field,
\* leaves frontContent/backContent as they are, and the field, removed by the
\* first call, is in neither of them again.
C6_HintConsumedOnce ==
  \A i \in DOMAIN history :
    (history[i].configured /\ history[i].ret # None) =>
      /\ ~Contains(ScanOrder(history[i].after), history[i].ret[1])
      /\ ~Contains(flatten(frontContent) \o backContent, history[i].ret[1])
      /\ ~history[i].cached => Contains(ScanOrder(history[i].before), history[i].ret[1])
      /\ \A j \in DOMAIN history :
           (i < j /\ history[j].configured /\ history[j].name = history[i].name) =>
             /\ history[j].ret = history[i].ret
             /\ history[j].after = history[j].before

\* C6 witness: two different hints configured to one archive field name were
\* resolved one after the other, the first one finding a field
C6_Witness ==
  /\ Len(history) = 2
  /\ history[1].configured /\ history[2].configured
  /\ history[1].hint # history[2].hint
  /\ history[1].name = history[2].name
  /\ history[1].ret # None
  /\ history[2].ret = history[1].ret

\* position of the first field of a sequence whose label is the given name
FirstLabelled(fields, name) ==
  CHOOSE k \in DOMAIN fields :
    /\ fields[k].label = name
    /\ \A m \in 1..(k - 1) : fields[m].label # name

\* a sequence without its k-th element
Without(fields, k) == SubSeq(fields, 1, k - 1) \o SubSeq(fields, k + 1, Len(fields))

\* C7 as stated: resolving a hint with no cached match removes exactly one
\* field, the first one in scan order whose label equals the configured
\* archive field name, returns it, and leaves all other fields in place.
C7_RemovesFirstByLabel ==
  \A i \in DOMAIN history :
    LET c == history[i]
        scan == ScanOrder(c.before)
    IN (c.configured /\ ~c.cached /\ \E k \in DOMAIN scan : scan[k].label = c.name) =>
         /\ c.ret = Some(scan[FirstLabelled(scan, c.name)])
         /\ ScanOrder(c.after) = Without(scan, FirstLabelled(scan, c.name))

\* the fields of a sequence whose key is not the given name, in order
OtherKeys(fields, name) == SelectSeq(fields, LAMBDA f : f.key # name)

\* the fields of a sequence whose key is the given name, in order
SameKey(fields, name) == SelectSeq(fields, LAMBDA f : f.key = name)

\* C7 amended: resolving a configured hint with no cached match removes
\* every field whose key equals the configured archive field name (front
\* rows in order, then back content), caches and returns the last of them,
\* and leaves every field with another key in place, whatever its label;
\* when no field has that key, nothing is removed and nothing returned.
C7_RemovesAllByKey ==
  \A i \in DOMAIN history :
    LET c == history[i]
        scan == ScanOrder(c.before)
        same == SameKey(scan, c.name)
    IN (c.configured /\ ~c.cached) =>
         /\ flatten(c.after.front) = OtherKeys(flatten(c.before.front), c.name)
         /\ c.after.back = OtherKeys(c.before.back, c.name)
         /\ \A r \in DOMAIN c.after.front :
              /\ Len(c.after.front[r]) > 0
              /\ \E q \in DOMAIN c.before.front :
                   c.after.front[r] = OtherKeys(c.before.front[q], c.name)
         /\ c.ret = IF Len(same) = 0 THEN None ELSE Some(same[Len(same)])
         /\ Len(same) > 0 => c.name \in DOMAIN hinted /\ hinted[c.name] = same[Len(same)]

\* C7 witness: a call removed two fields with the configured key, returned
\* the later one, and left in place a field labelled with that name
C7_Witness ==
  \E i \in DOMAIN history :
    LET c == history[i]
        same == SameKey(ScanOrder(c.before), c.name)
    IN /\ c.configured /\ ~c.cached
       /\ Len(same) = 2
       /\ c.ret = Some(same[2])
       /\ \E k \in DOMAIN ScanOrder(c.after) : ScanOrder(c.after)[k].label = c.name

----------------------------------------------------------------------------
(* Claims about decoding an archive                                         *)

\* a Pass came out of Pass.fromPkPass
Decoded == pc = "done" /\ thrown = "none"

\* the fields of the archive under the content key of the selected variant
ArchiveFields(js, cls) ==
  LET content == js.content[pkpassContentFields(cls)]
  IN content.headerFields \o content.primaryFields \o content.secondaryFields
     \o content.auxiliaryFields \o content.backFields

\* some field of fields has the key name
HasKey(fields, name) == \E i \in DOMAIN fields : fields[i].key = name

\* the hint is configured and the archive holds the field it names
HintNamesArchiveField(hintName) ==
  /\ hintName \in DOMAIN hints
  /\ HasKey(ArchiveFields(json, variant), hints[hintName])

\* the balance is the archive field the hint names
BalanceFrom(balance, hintName) ==
  /\ balance # None
  /\ balance[1].key = hints[hintName]

\* C8 as stated: when the hints configuration maps 'loyalty.primaryPoints'
\* (resp. 'loyalty.secondaryPoints') to a field of a storeCard archive,
\* decoding sets the primary (resp. secondary) balance from that field and
\* the loyalty object carries it as loyaltyPoints (resp.
\* secondaryLoyaltyPoints).
C8_DocumentedLoyaltyHintsRead ==
  (Decoded /\ variant = "Loyalty") =>
    /\ HintNamesArchiveField("loyalty.primaryPoints") =>
         /\ BalanceFrom(attrs.primaryBalance, "loyalty.primaryPoints")
         /\ loyaltyObjectBalances(attrs).loyaltyPoints # None
    /\ HintNamesArchiveField("loyalty.secondaryPoints") =>
         /\ BalanceFrom(attrs.secondaryBalance, "loyalty.secondaryPoints")
         /\ loyaltyObjectBalances(attrs).secondaryLoyaltyPoints # None

\* the 'event.name' hint matches a field of the archive with a non-blank value
EventNameHinted ==
  /\ "event.name" \in DOMAIN hints
  /\ LET fields == ArchiveFields(json, "Event")
     IN \E i \in DOMAIN fields :
          fields[i].key = hints["event.name"] /\ ~Blank(fields[i].value)

\* the event name cannot be resolved from the hint or the archive's title
EventNameUnresolvable ==
  /\ createPassForType(json) = "Event"
  /\ ~EventNameHinted
  /\ ~Truthy(json.logoText)

EventNameError == "Could not determine event name, please specify via hints.json"

\* C9 as stated: decoding an Event archive whose event name cannot be
\* resolved (no non-blank hinted field, no logoText) aborts with the event
\* name error and produces no Pass, whether or not the empty-value
\* placeholder is configured; the placeholder never becomes the title.
C9_UnresolvableEventNameFails ==
  (pc = "done" /\ EventNameUnresolvable) =>
    /\ thrown = EventNameError
    /\ ~Decoded

\* the variant the documented type table gives an archive, reading the
\* content keys in the order Generic, Loyalty, Event, Offer, Flight, Transit
TableVariant(js) ==
  LET keys == DOMAIN js.content
      transitType == js.content["boardingPass"].transitType
  IN CASE "generic" \in keys -> "Generic"
       [] "storeCard" \in keys -> "Loyalty"
       [] "eventTicket" \in keys -> "Event"
       [] "coupon" \in keys -> "Offer"
       [] "boardingPass" \in keys /\ transitType = "PKTransitTypeAir" -> "Flight"
       [] "boardingPass" \in keys /\ transitType \in
            {"PKTransitTypeTrain", "PKTransitTypeBoat", "PKTransitTypeBus",
             "PKTransitTypeGeneric"} -> "Transit"
       [] OTHER -> Undefined

\* the payload prefix and content key the type table documents
TablePrefix ==
  [Generic |-> "generic", Loyalty |-> "loyalty", Event |-> "eventTicket",
   Offer |-> "offer", Flight |-> "flight", Transit |-> "transit"]
TableContentKey ==
  [Generic |-> "generic", Loyalty |-> "storeCard", Event |-> "eventTicket",
   Offer |-> "coupon", Flight |-> "boardingPass", Transit |-> "boardingPass"]

\* the variant selected for the archive is the one of the type table
SelectionFollowsTable ==
  /\ (variant # Undefined) =>
       /\ variant = TableVariant(json)
       /\ googlePrefix(variant) = TablePrefix[variant]
       /\ pkpassContentFields(variant) = TableContentKey[variant]
  /\ (pc = "done" /\ variant = Undefined) => TableVariant(json) = Undefined
  /\ ~(matchesArchive("Flight", json) /\ matchesArchive("Transit", json))

\* C10: the variant selected on decode is the first match in the order
\* Generic, Loyalty, Event, Offer, Flight, Transit and follows the type table
\* (content key and payload prefix per variant, boardingPass split by
\* transitType between Flight and Transit, never both), and once selected the
\* variant, hence its prefix and content key, never changes.
C10_VariantSelection ==
  /\ []SelectionFollowsTable
  /\ [][variant # Undefined =>
          /\ variant' = variant
          /\ googlePrefix(variant') = googlePrefix(variant)
          /\ pkpassContentFields(variant') = pkpassContentFields(variant)]_vars

\* a bus boardingPass archive was decoded into a Transit pass
C10_Witness ==
  /\ Decoded
  /\ variant = "Transit"
  /\ json.content["boardingPass"].transitType = "PKTransitTypeBus"

----------------------------------------------------------------------------
(* Claims about archives no variant matches                                 *)

\* the transit types some variant accepts
KnownTransitTypes ==
  {"PKTransitTypeAir", "PKTransitTypeTrain", "PKTransitTypeBoat", "PKTransitTypeBus",
   "PKTransitTypeGeneric"}

\* the archive has no content key, or only boardingPass with a missing or
\* unknown transitType
NoVariantMatches(js) ==
  \/ DOMAIN js.content = {}
  \/ /\ DOMAIN js.content = {"boardingPass"}
     /\ js.content["boardingPass"].transitType \notin KnownTransitTypes

\* C11: when no content key is present, or the only one is boardingPass with
\* a missing or unknown transitType, decoding the archive aborts with an
\* error, selects no variant and leaves no Pass; conversely a variant is only
\* ever selected for an archive it matches.
C11_UnsupportedVariantAborts ==
  /\ (pc = "done" /\ NoVariantMatches(json)) =>
       /\ thrown = "TypeError"
       /\ ~Decoded
       /\ variant = Undefined
       /\ PassIdle
  /\ (variant # Undefined) => ~NoVariantMatches(json)

\* a boardingPass archive with an unknown transitType was rejected
C11_Witness ==
  /\ pc = "done"
  /\ DOMAIN json.content = {"boardingPass"}
  /\ json.content["boardingPass"].transitType = "PKTransitTypeRocket"
  /\ thrown = "TypeError"
  /\ variant = Undefined

----------------------------------------------------------------------------
(* Claims about barcodes                                                     *)

\* the conversion applied last, if any
LastOp == IF Len(history) = 0 THEN "none" ELSE history[Len(history)].op

\* the canonical name the claim gives each accepted payload type
CanonicalNames == {"AZTEC", "CODE_128", "PDF_417", "QR_CODE"}
CanonicalOfType ==
  [AZTEC |-> "AZTEC", CODE_128 |-> "CODE_128", PDF_417 |-> "PDF_417", QR_CODE |-> "QR_CODE",
   aztec |-> "AZTEC", code128 |-> "CODE_128", pdf417 |-> "PDF_417", PDF417 |-> "PDF_417",
   qrCode |-> "QR_CODE"]

\* C12 as stated: Barcodes.fromGoogle gives every canonical name and every
\* legacy alias its canonical format with the payload value as message, and
\* gives no barcode for a missing barcode or any other type.
C12_FromGoogleNormalizes ==
  (pc = "decoded" /\ LastOp = "fromGoogle") =>
    IF googlePass.barcode # None /\ googlePass.barcode[1].type \in DOMAIN CanonicalOfType
      THEN barcode = Some([format |-> CanonicalOfType[googlePass.barcode[1].type],
                           message |-> googlePass.barcode[1].value])
      ELSE barcode = None

\* the barcode is one the archive formats can express
Canonical(b) == b # None /\ b[1].format \in CanonicalNames

\* the archive format string the claim pairs with each canonical name
ArchiveFormatOf ==
  [AZTEC |-> "PKBarcodeFormatAztec", CODE_128 |-> "PKBarcodeFormatCode128",
   PDF_417 |-> "PKBarcodeFormatPDF417", QR_CODE |-> "PKBarcodeFormatQR"]

\* C13: a barcode decoded from an archive with one of the four archive
\* formats has a canonical format; encoding a pass with such a barcode to a
\* payload writes barcode.value = message, and decoding that payload gives
\* the same message and canonical format again; encoding it to an archive
\* writes barcodes[0] with the same message and the archive format string of
\* the canonical format.
C13_BarcodeRoundTrip ==
  /\ (pc = "decoded" /\ LastOp = "fromPkPass" /\ Len(archiveBarcodeList(json)) > 0
        /\ archiveBarcodeList(json)[Len(archiveBarcodeList(json))].format
             \in {ArchiveFormatOf[c] : c \in CanonicalNames}) =>
       /\ Canonical(barcode)
       /\ barcode[1].message = archiveBarcodeList(json)[Len(archiveBarcodeList(json))].message
       /\ ArchiveFormatOf[barcode[1].format] =
            archiveBarcodeList(json)[Len(archiveBarcodeList(json))].format
  /\ (LastOp = "toGoogle" /\ Canonical(barcode)) =>
       /\ googlePass.barcode # None
       /\ googlePass.barcode[1].value = barcode[1].message
  /\ \A i \in 1..(Len(history) - 1) :
       (history[i].op = "toGoogle" /\ history[i + 1].op = "fromGoogle"
          /\ Canonical(history[i].barcode)) =>
         history[i + 1].barcode = history[i].barcode
  /\ (LastOp = "toPkPass" /\ Canonical(barcode)) =>
       /\ thrown = "none"
       /\ json.barcodes # None
       /\ Len(json.barcodes[1]) = 1
       /\ json.barcodes[1][1].message = barcode[1].message
       /\ json.barcodes[1][1].format = ArchiveFormatOf[barcode[1].format]
  /\ \A i \in 1..(Len(history) - 1) :
       (history[i].op = "toPkPass" /\ history[i + 1].op = "fromPkPass"
          /\ Canonical(history[i].barcode)) =>
         history[i + 1].barcode = history[i].barcode

\* an archive barcode went archive -> pass -> payload -> pass -> archive
C13_Witness ==
  /\ Len(history) = 4
  /\ history[1].op = "fromPkPass"
  /\ history[2].op = "toGoogle"
  /\ history[3].op = "fromGoogle"
  /\ history[4].op = "toPkPass"
  /\ Canonical(history[1].barcode)
  /\ history[3].barcode = history[1].barcode
  /\ json.barcodes # None

\* C14 as stated: after any decode, from archive or from payload, the pass
\* has no barcode or a barcode whose format is one of AZTEC, CODE_128,
\* PDF_417, QR_CODE, also for unrecognised archive formats and for archives
\* listing several barcodes.
C14_DecodedFormatEnumerated ==
  (pc = "decoded" /\ LastOp \in {"fromPkPass", "fromGoogle"}) =>
    \/ barcode = None
    \/ barcode[1].format \in CanonicalNames

----------------------------------------------------------------------------
(* Claims about loyalty balances                                             *)

\* the primary balance the pass was encoded from
OriginalBalance == history[1].attrs.primaryBalance[1]

\* the decimal precision the claim gives the currency codes of the runs
ClaimedPrecision == [JPY |-> 0, usd |-> 2, BHD |-> 3]

\* the original value in thousandths, when it is a number or a text that
\* reads as a number
Thousandths(v) ==
  IF v.type = "number" THEN v.num
  ELSE CASE v.text = "0" -> 0
         [] v.text = "" -> 0
         [] v.text = "12" -> 12000
         [] v.text = "12.3" -> 12300
         [] v.text = "1.50" -> 1500

\* n is the integer nearest to x / 1000 (halves towards +infinity)
Nearest(n, x) == 2 * 1000 * n - 1000 <= 2 * x /\ 2 * x < 2 * 1000 * n + 1000

C16_PlainBalanceRoundTrip ==
  (pc = "done" /\ ~Truthy(OriginalBalance.currencyCode)) =>
    /\ thrown = "none"
    /\ attrs.primaryBalance # None
    /\ attrs.primaryBalance[1].value = OriginalBalance.value

----------------------------------------------------------------------------
(* Claims about localized strings                                            *)

\* C17: a localized string produced by toGoogleLocalizedField has one
\* default value, in the default language of the pass; its override list,
\* when present, is not empty, has at most one entry per language, only
\* languages of the strings table, and only values that differ from the
\* default value; when no translation differs the list is omitted.
C17_LocalizedStringShape ==
  \A k \in DOMAIN history :
    LET r == history[k].ret
        overrides == IF r.translatedValues = None THEN << >> ELSE r.translatedValues[1]
    IN /\ r.defaultValue.language = passDefaultLanguage(strings, defaultLanguage)
       /\ (Len(strings) > 0) => hasLanguage(strings, r.defaultValue.language)
       /\ r.translatedValues # None => Len(overrides) > 0
       /\ \A i \in DOMAIN overrides :
            /\ hasLanguage(strings, overrides[i].language)
            /\ overrides[i].value # r.defaultValue.value
            /\ \A j \in DOMAIN overrides : i # j => overrides[i].language # overrides[j].language
       /\ (\A i \in DOMAIN strings :
             getString(strings, emptyValue, strings[i].language, history[k].value).value
               = r.defaultValue.value)
            => r.translatedValues = None

\* 'Gate' was localized for a pass with an identical and a different
\* translation: only the different one is listed
C17_Witness ==
  /\ Len(history) >= 1
  /\ history[1].value = "Gate"
  /\ Len(strings) = 2
  /\ strings[1] = [language |-> "en", table |-> ("Gate" :> "Gate")]
  /\ strings[2] = [language |-> "fr", table |-> ("Gate" :> "Porte")]
  /\ history[1].ret.defaultValue = [language |-> "en", value |-> "Gate"]
  /\ history[1].ret.translatedValues = Some(<<[language |-> "fr", value |-> "Porte"]>>)

----------------------------------------------------------------------------
(* Claims about the strings tables and the archive                           *)

\* the table the archive was written from
ExportedStrings == history[1].strings

\* the French override of 'Gate' survives payload decode, archive encode and
\* archive decode (the example of the claim, without special characters)
GatePorteSurvives ==
  (/\ pc = "reread"
   /\ googlePass.localizedHeader =
        Some(LocalizedString("en", <<"Gate">>, <<[language |-> "fr", value |-> <<"Porte">>]>>)))
    => /\ hasLanguage(strings, "fr")
       /\ <<"Gate">> \in DOMAIN stringsOf(strings, "fr")
       /\ stringsOf(strings, "fr")[<<"Gate">>] = <<"Porte">>

\* C18: every string table written to the archive with Lproj.export and read
\* back with Lproj.parse is the table that was written:
\* Lproj.parse(Lproj.export(t)) = t.
C18_LprojRoundTrip ==
  pc = "reread" => strings = ExportedStrings

\* a localized string has, in the strings table, its default value mapped to
\* itself under the default's language and to each override's value under
\* that override's language
inStrings(table, field) ==
  LET key == field.defaultValue.value
      has(entry) == /\ hasLanguage(table, entry.language)
                    /\ key \in DOMAIN stringsOf(table, entry.language)
                    /\ stringsOf(table, entry.language)[key] = entry.value
  IN /\ has(field.defaultValue)
     /\ \A i \in DOMAIN field.translatedValues : has(field.translatedValues[i])

\* the localized fields of the payload
PayloadLocalizedFields ==
  {f \in {googlePass.localizedHeader, googlePass.localizedBody, googlePass.localizedTitle} :
     f # None}

\* C19: after decode-from-payload every localized field of the payload, the
\* variant-specific title of the offer class included, has its default and
\* its overrides in the strings table, keyed by language.
C19_EveryLocalizedFieldInStrings ==
  pc = "pass" => \A f \in PayloadLocalizedFields : inStrings(strings, f[1])

\* the names an unsigned archive of the pass has, in the order written
UnsignedNames ==
  <<"pass.json", "icon@2x.png", "logo@2x.png">>
    \o [i \in DOMAIN ExportedStrings |-> lprojName(ExportedStrings[i].language)]
    \o <<"manifest.json">>

HasEntry(name) == \E i \in DOMAIN zip : zip[i].entryName = name

\* C20: a returned archive has a 'signature' entry exactly when all five
\* signing settings are configured; with a setting missing the signing
\* process is never started and the complete unsigned archive (pass.json,
\* images, string tables, manifest) is returned; the signing process is
\* started at most once per archive, on the manifest that is in the archive.
C20_SignatureIffConfigured ==
  /\ pc \in {"archive", "reread"} =>
       (HasEntry("signature") <=> SigningSettings \subseteq signing)
  /\ (pc \notin {"payload", "pass"} /\ ~(SigningSettings \subseteq signing)) =>
       /\ spawned = << >>
       /\ thrown = "none"
       /\ pc \in {"archive", "reread"}
       /\ entryNames(zip) = UnsignedNames
  /\ Len(spawned) <= 1
  /\ \A i \in DOMAIN spawned :
       \E j \in DOMAIN zip : /\ zip[j].entryName = "manifest.json"
                             /\ zip[j].data = spawned[i].in
                             /\ spawned[i].in = SubSeq(UnsignedNames, 1, Len(UnsignedNames) - 1)

\* a signed archive with two string tables was returned
C20_Witness ==
  /\ pc = "archive"
  /\ SigningSettings \subseteq signing
  /\ Len(spawned) = 1
  /\ HasEntry("signature")
  /\ HasEntry("fr.lproj/pass.strings")
  /\ entryNames(zip) = Append(UnsignedNames, "signature")

\* C21: when all five signing settings are configured and the signing
\* process writes no signature file, toPkPass still returns an archive with
\* pass.json, the images, the string tables and the manifest.
C21_SigningFailureNotFatal ==
  (/\ SigningSettings \subseteq signing
   /\ Len(spawned) = 1
   /\ ~signatureFile)
    => /\ thrown = "none"
       /\ pc \in {"archive", "reread"}
       /\ entryNames(zip) = UnsignedNames

----------------------------------------------------------------------------
(* Claims about images, the service and the remaining conversions            *)

\* C22: when the image handler resolves to no URI, the variant's toGoogle
\* completes and the image slot of its class or object holds no image; no
\* image object without a URI is ever produced.
C22_NoUriNoImage ==
  \A k \in DOMAIN history :
    LET call == history[k]
    IN /\ (call.thrown = "none" /\ call.uri = None) =>
            /\ call.payload.slot = imageSlot(variant)
            /\ call.payload.image = None
       /\ (call.thrown = "none" /\ call.payload.image # None) =>
            call.payload.image[1].sourceUri.uri # None

\* a conversion served on localhost produced a payload without a logo
C22_Witness ==
  /\ Len(history) >= 1
  /\ history[1].imageHost = "http://localhost:3000/convert/image/"
  /\ history[1].thrown = "none"
  /\ history[1].uri = None
  /\ googlePass = [slot |-> <<"offerClasses", "titleImage">>, image |-> None]

\* C23: outside demo mode a request to /convert/ without the configured
\* authentication header (none being configured included) is answered 401
\* and nothing is converted, requested or written for it; an authenticated
\* request without a file is answered 400 and converts nothing.
C23_ConvertRequiresAuth ==
  \A k \in DOMAIN history :
    (history[k].op = "convert" /\ ~demo) =>
      /\ ~history[k].carried => (history[k].status = 401 /\ ~history[k].acted)
      /\ (history[k].carried /\ ~history[k].files) =>
           (history[k].status = 400 /\ ~history[k].acted)

\* the (device, serial) pairs registered after the first n requests, as the
\* lifecycle describes them
RECURSIVE RegisteredAfter(_)
RegisteredAfter(n) ==
  IF n = 0 THEN {}
  ELSE LET h == history[n]
           before == RegisteredAfter(n - 1)
       IN IF h.op = "register" /\ h.carried THEN before \cup {<<h.device, h.serial>>}
          ELSE IF h.op = "unregister" /\ h.carried THEN before \ {<<h.device, h.serial>>}
          ELSE before

\* C26: a register request for an unregistered (device, serial) pair is
\* answered 201 and creates one record with the device's push token, a
\* repeated one is answered 200 without a second record, different devices
\* and passes have separate records, unregistering removes exactly the
\* pair's record, and an update of a pass pushes to exactly the devices
\* registered for it.
C26_RegistrationLifecycle ==
  /\ \A k \in DOMAIN history :
       LET h == history[k]
           before == RegisteredAfter(k - 1)
       IN /\ (h.op = "register" /\ h.carried) =>
               h.status = (IF <<h.device, h.serial>> \in before THEN 200 ELSE 201)
          /\ (h.op = "convert" /\ h.update /\ h.acted) =>
               {h.pushedTo[i] : i \in DOMAIN h.pushedTo}
                 = {pushTokenOf(p[1]) : p \in {q \in before : q[2] = h.serial}}
  /\ Len(registrations) = Cardinality(RegisteredAfter(Len(history)))
  /\ \A p \in RegisteredAfter(Len(history)) :
       \E i \in DOMAIN registrations :
         /\ registrations[i].deviceId = p[1]
         /\ registrations[i].serialNumber = p[2]
         /\ registrations[i].pushToken = pushTokenOf(p[1])

\* C24: for each variant, the pass.json written for a pass decoded from a
\* payload has a description: the pass's description when it has one,
\* otherwise its title, and never undefined.
C24_DescriptionDefined ==
  pc = "archive" =>
    /\ zip[1].data.description = (IF Truthy(description) THEN description ELSE title)
    /\ zip[1].data.description # Undefined

\* the transit types of the payload side
TransitEnum == {"RAIL", "FERRY", "BUS", "TRAM", "OTHER"}

ArchiveTransitTypes ==
  {"PKTransitTypeTrain", "PKTransitTypeBoat", "PKTransitTypeBus", "PKTransitTypeGeneric"}

C27_PackedRowsHoldOneToThree ==
  pc = "done" =>
    /\ thrown = "none"
    /\ \A r \in DOMAIN frontContent : Len(frontContent[r]) \in 1..3
    /\ flatten(frontContent) = flatten(packInput)
    /\ \A i \in DOMAIN cardRowTemplateInfos : cardRowTemplateInfos[i].name # "throw"

\* an empty row was dropped and a row of 5 was split
C27_Witness ==
  /\ pc = "done"
  /\ \E r \in DOMAIN packInput : Len(packInput[r]) = 0
  /\ \E r \in DOMAIN packInput : Len(packInput[r]) = 5
  /\ Len(frontContent) >= 2
  /\ \A r \in DOMAIN frontContent : Len(frontContent[r]) \in 1..3

\* C28: resolving a hint name that has no entry in the hint table returns
\* no field and leaves frontContent and backContent as they were, whatever
\* keys the fields have, fields without a key included.
C28_UnconfiguredHintChangesNothing ==
  \A k \in DOMAIN history :
    ~history[k].configured =>
      /\ history[k].ret = None
      /\ history[k].after = history[k].before

\* the fields of a bucket of the pass description
BucketFields(bucket) == IF bucket = None THEN {} ELSE {bucket[1][i] : i \in DOMAIN bucket[1]}

\* C29: every item of the front content of a pass (up to 3 rows) is in some
\* bucket (header, primary, secondary, auxiliary, back) of the pass
\* description toPkPass writes, for every variant.
C29_NoFrontContentLost ==
  pc = "archive" =>
    LET content == zip[1].data
        written == BucketFields(content.headerFields) \cup BucketFields(content.primaryFields)
                     \cup BucketFields(content.secondaryFields)
                     \cup BucketFields(content.auxiliaryFields)
                     \cup BucketFields(content.backFields)
    IN \A r \in DOMAIN packInput : \A c \in DOMAIN packInput[r] : packInput[r][c] \in written

============================================================================
